---- MODULE Spec2Model ----
(***************************************************************************)
(* The Durak room of FirstGamble: the rules engine DurakGame               *)
(* (src/firstgamble_api/durak_logic.py) driven by DurakManager             *)
(* (src/firstgamble_api/durak_manager.py).  One room is modelled; the      *)
(* variable game is the DurakGame object, points[u] is the sum of the      *)
(* deltas of the add_points calls made for user u (the debits of           *)
(* create_room and join_room, the credits of process_win).  redealt bounds *)
(* the exploration: it is 0 until a ready message deals a started game     *)
(* again, and from then on 1 plus the number of messages that changed the  *)
(* room since.                                                             *)
(***************************************************************************)
EXTENDS Integers, Sequences, FiniteSets, Bags, TLC

VARIABLES game, points, redealt

(***************************************************************************)
(* The state of DurakManager and of its coroutines, for the specifications *)
(* of the room registry further down: the dicts rooms, connections,        *)
(* user_room_map and timers of the manager, the supervisor tasks that are  *)
(* still scheduled, Player.last_active and the clock it is compared with,  *)
(* the create_room and join_room calls in flight, the WebSockets, the      *)
(* broadcasts in flight and the process_win calls in flight.  The          *)
(* specifications of one room leave them empty.                            *)
(***************************************************************************)
VARIABLES rooms, connections, user_room_map, timers, tasks, last_active, now,
          calls, socks, casts, wins

mvars == <<rooms, connections, user_room_map, timers, tasks, last_active, now,
           calls, socks, casts, wins>>

vars == <<game, points, redealt, mvars>>

\* a dict without keys
EmptyDict == <<>>

\* DurakManager.__init__, and no coroutine started
ManagerInit ==
    /\ rooms = EmptyDict
    /\ connections = EmptyDict
    /\ user_room_map = EmptyDict
    /\ timers = {}
    /\ tasks = {}
    /\ last_active = EmptyDict
    /\ now = 0
    /\ calls = EmptyBag
    /\ socks = EmptyDict
    /\ casts = EmptyDict
    /\ wins = EmptyDict

(***************************************************************************)
(* Bounds of the model.                                                    *)
(***************************************************************************)
\* number of ranks (the top ones of RANKS) the deck is built from
NumRanks == 3
\* number of suits (the first ones of SUITS) the deck is built from
NumSuits == 2
\* cards dealt to a hand; the code deals and refills to 6
HandSize == 2
\* user ids that send requests: 1 .. NumUsers
NumUsers == 3
\* number of outcomes of random.shuffle that are explored
NumShuffles == 1
\* a message is not followed when it would leave a hand longer than this
MaxHand == 3
\* payout settlements that are followed for one room
MaxSettle == 2
\* messages that are followed after a started game was dealt again
MaxAfter == 1
\* outcomes of random.shuffle that are explored for a room dealt twice
RedealShuffles == 3
\* outcomes of random.shuffle that are explored for a deck of full size
DealShuffles == 2
\* user ids that call create_room and join_room: 1 .. NumClients
NumClients == 5
\* room ids that uuid4 hands out: 1 .. MaxRooms
MaxRooms == 2
\* create_room and join_room calls that are in flight at the same time
MaxCalls == 2
\* broadcasts that are in flight at the same time
MaxCasts == 2
\* WebSocket connections that are opened
MaxSocks == 3
\* process_win calls in flight
MaxWins == 2
\* the clock advances by TickStep seconds, up to MaxTime
TickStep == 30
MaxTime == 60
\* READY_TIMEOUT = 30
READY_TIMEOUT == 30
\* pairs on the table from which action_attack refuses a further card; the
\* code's limit is 6, which a deck of NumRanks * NumSuits cards never meets
MAX_TABLE == 2

(***************************************************************************)
(* Program constants.                                                      *)
(***************************************************************************)
RANKS == <<"2", "3", "4", "5", "6", "7", "8", "9", "T", "J", "Q", "K", "A">>
SUITS == <<"H", "D", "C", "S">>
MAX_PLAYERS == 4
\* for _ in range(6): the rounds of the deal of start_game
DEAL_ROUNDS == 6
\* the values of settings["size"] for which Deck.__init__ picks the ranks
DECK_SIZES == {24, 36, 52}
WIN_REWARD == 100
JOIN_COST == 30

Users == 1 .. NumUsers
Modes == {"podkidnoy", "perevodnoy"}

\* Python's None for a card, and for the target index of a message
NoCard == [rank |-> "-", suit |-> "-"]
NoIdx == -99

Card(r, s) == [rank |-> r, suit |-> s]

\* rank_value(r) = RANKS.index(r)
rank_value(r) == (CHOOSE i \in 1 .. Len(RANKS) : RANKS[i] = r) - 1

(***************************************************************************)
(* Sequence helpers.                                                       *)
(***************************************************************************)
RECURSIVE Concat(_)
Concat(ss) == IF ss = <<>> THEN <<>> ELSE Head(ss) \o Concat(Tail(ss))

RECURSIVE SumSeq(_)
SumSeq(s) == IF s = <<>> THEN 0 ELSE Head(s) + SumSeq(Tail(s))

Range(s) == {s[i] : i \in 1 .. Len(s)}

(***************************************************************************)
(* A hand.  The code keeps p.hand as a list and uses it only through       *)
(* append, len, membership and the filter that removes a card; it is       *)
(* modelled as the bag of its cards.                                       *)
(***************************************************************************)
HandAdd(hand, card) == hand (+) SetToBag({card})
HandLen(hand) == BagCardinality(hand)

\* [c for c in hand if not (c.rank == card.rank and c.suit == card.suit)]
Without(hand, card) == [c \in BagToSet(hand) \ {card} |-> hand[c]]

\* a membership test that finds every card
InHand_Any(hand, card) == TRUE

\* any(c.rank == card.rank and c.suit == card.suit for c in hand)
InHand(hand, card) == BagIn(card, hand)

(***************************************************************************)
(* Deck.                                                                   *)
(***************************************************************************)
\* chosen_ranks = RANKS[start_idx:], bounded to the top NumRanks ranks
ChosenRanks == SubSeq(RANKS, Len(RANKS) - NumRanks + 1, Len(RANKS))

\* the suits in play: the first NumSuits of SUITS
ChosenSuits == SubSeq(SUITS, 1, NumSuits)

\* for s in SUITS: for r in chosen_ranks: cards.append(Card(r, s))
OrderedCards ==
    Concat([i \in 1 .. Len(ChosenSuits) |->
              [j \in 1 .. Len(ChosenRanks) |-> Card(ChosenRanks[j], ChosenSuits[i])]])

DeckSize == Len(OrderedCards)
AllCards == Range(OrderedCards)

Rotate(s, k) ==
    [i \in 1 .. Len(s) |-> s[((i - 1 + k) % Len(s)) + 1]]

\* the cards at positions j, j + m, j + 2m, ...
Pile(s, m, j) ==
    LET n == (Len(s) - j) \div m + 1
    IN  [i \in 1 .. n |-> s[j + (i - 1) * m]]

\* a permutation of s: its m piles one after the other
Piles(s, m) == Concat([j \in 1 .. m |-> Pile(s, m, j)])

\* the outcomes of random.shuffle(self.cards) that are explored
Shuffled(k) == Rotate(Piles(OrderedCards, k + 1), 3 * k)

NoDeck == [none |-> TRUE, cards |-> <<>>]
Deck(k) == [none |-> FALSE, cards |-> Shuffled(k)]

(***************************************************************************)
(* Player and DurakGame construction.                                      *)
(***************************************************************************)
Player(uid) == [uid |-> uid, hand |-> EmptyBag, is_ready |-> FALSE, is_out |-> FALSE]

NewGame(mode) ==
    [ settings     |-> [mode |-> mode],
      players      |-> <<>>,
      deck         |-> NoDeck,
      trump_card   |-> NoCard,
      trump_suit   |-> "None",
      table        |-> <<>>,
      attacker_idx |-> 0,
      defender_idx |-> 1,
      state        |-> "waiting",
      turn_state   |-> "attack",
      pass_count   |-> 0,
      winner_order |-> <<>> ]

\* players are indexed from 0 as in the code
P(g, idx) == g.players[idx + 1]
NPlayers(g) == Len(g.players)
Seats(g) == 0 .. NPlayers(g) - 1
Seated(g, uid) == \E i \in Seats(g) : P(g, i).uid = uid

\* an add_player without a limit on the seats
add_player_Crowded(g, uid) ==
    IF g.state # "waiting" THEN g
    ELSE IF Seated(g, uid) THEN g
    ELSE [g EXCEPT !.players = Append(@, Player(uid))]

add_player(g, uid) ==
    IF g.state # "waiting" THEN g
    ELSE IF NPlayers(g) >= MAX_PLAYERS THEN g
    ELSE IF Seated(g, uid) THEN g
    ELSE [g EXCEPT !.players = Append(@, Player(uid))]

set_ready(g, uid) ==
    [g EXCEPT !.players =
        [i \in 1 .. Len(@) |->
            IF @[i].uid = uid THEN [@[i] EXCEPT !.is_ready = TRUE] ELSE @[i]]]

(***************************************************************************)
(* start_game.                                                             *)
(***************************************************************************)
\* Deck.draw(): the card popped from the end of the list
DrawCard(cards) == cards[Len(cards)]
DrawRest(cards) == SubSeq(cards, 1, Len(cards) - 1)

\* for _ in range(6): for p in self.players: c = draw(); if c: p.hand.append(c)
RECURSIVE Deal(_, _, _)
Deal(players, cards, order) ==
    IF order = <<>> THEN [players |-> players, cards |-> cards]
    ELSE IF cards = <<>> THEN Deal(players, cards, Tail(order))
    ELSE Deal([players EXCEPT ![Head(order)].hand = HandAdd(@, DrawCard(cards))],
              DrawRest(cards), Tail(order))

DealOrder(n) == Concat([r \in 1 .. HandSize |-> [i \in 1 .. n |-> i]])

\* the scan for the lowest trump: acc = <<min_trump, starter_idx>>; a hand
\* lowers min_trump to its lowest trump when that is strictly lower
ScanHand(hand, i, trump, acc) ==
    LET vals == {rank_value(c.rank) : c \in {x \in BagToSet(hand) : x.suit = trump}}
    IN  IF \E v \in vals : v < acc[1]
        THEN <<CHOOSE v \in vals : \A w \in vals : v <= w, i>>
        ELSE acc

RECURSIVE ScanPlayers(_, _, _, _)
ScanPlayers(players, i, trump, acc) ==
    IF i >= Len(players) THEN acc
    ELSE ScanPlayers(players, i + 1, trump,
                     ScanHand(players[i + 1].hand, i, trump, acc))

StarterIdx(players, trump) == ScanPlayers(players, 0, trump, <<100, 0>>)[2]

start_game(g, k) ==
    IF NPlayers(g) < 2 THEN g
    ELSE
      LET d == Deal(g.players, Deck(k).cards, DealOrder(NPlayers(g)))
          tcard == IF d.cards # <<>> THEN d.cards[1] ELSE g.trump_card
          tsuit == IF d.cards # <<>> THEN d.cards[1].suit ELSE "H"
          starter == StarterIdx(d.players, tsuit)
      IN  [g EXCEPT !.deck = [none |-> FALSE, cards |-> d.cards],
                    !.players = d.players,
                    !.trump_card = tcard,
                    !.trump_suit = tsuit,
                    !.attacker_idx = starter,
                    !.defender_idx = (starter + 1) % NPlayers(g),
                    !.state = "playing",
                    !.turn_state = "attack",
                    !.table = <<>>]

(***************************************************************************)
(* _next_turn.  An operation yields the game it leaves behind and whether  *)
(* it raised an exception.                                                 *)
(***************************************************************************)
\* Done: the operation ran to its end; Return: it took an early return
Done(g) == [g |-> g, outcome |-> "done"]
Return(g) == [g |-> g, outcome |-> "returned"]
Raised(g) == [g |-> g, outcome |-> "raised"]

\* a refill that starts at the defender
RefillOrder_Defender(g) ==
    [j \in 1 .. NPlayers(g) |-> (g.defender_idx + j - 1) % NPlayers(g)]

\* indices: n seats starting at attacker_idx
RefillOrder(g) ==
    [j \in 1 .. NPlayers(g) |-> (g.attacker_idx + j - 1) % NPlayers(g)]

\* while len(p.hand) < 6 and self.deck.cards: p.hand.append(self.deck.draw())
RECURSIVE DrawUpTo(_, _)
DrawUpTo(hand, cards) ==
    IF HandLen(hand) < HandSize /\ cards # <<>>
    THEN DrawUpTo(HandAdd(hand, DrawCard(cards)), DrawRest(cards))
    ELSE [hand |-> hand, cards |-> cards]

RECURSIVE Refill(_, _, _)
Refill(players, cards, order) ==
    IF order = <<>> THEN [players |-> players, cards |-> cards]
    ELSE LET i == Head(order) + 1
         IN  IF players[i].is_out THEN Refill(players, cards, Tail(order))
             ELSE LET r == DrawUpTo(players[i].hand, cards)
                  IN  Refill([players EXCEPT ![i].hand = r.hand], r.cards,
                             Tail(order))

\* the refill reads self.deck.cards: with no deck built this raises as soon
\* as a non-out player holds fewer than 6 cards; so does the winners check
\* for a non-out player with an empty hand
RefillRaises(g) ==
    /\ g.deck.none
    /\ \E i \in Seats(g) : ~P(g, i).is_out /\ HandLen(P(g, i).hand) < HandSize

\* a test for going out that does not look at is_out
GoesOut_Again(p, cards) == HandLen(p.hand) = 0 /\ cards = <<>>

\* 2. mark players with an empty hand as out once the deck is empty
GoesOut(p, cards) == ~p.is_out /\ HandLen(p.hand) = 0 /\ cards = <<>>

MarkOut(players, cards) ==
    [i \in 1 .. Len(players) |->
        IF GoesOut(players[i], cards)
        THEN [players[i] EXCEPT !.is_out = TRUE] ELSE players[i]]

NewWinners(players, cards) ==
    LET out == SelectSeq(players, LAMBDA p : GoesOut(p, cards))
    IN  [i \in 1 .. Len(out) |-> out[i].uid]

\* a list of active players that is always empty
ActiveIdx_None(players) == {}

ActiveIdx(players) == {i \in 0 .. Len(players) - 1 : ~players[i + 1].is_out}

\* while next_att not in active: next_att = (next_att + 1) % n
RECURSIVE NextActive(_, _, _)
NextActive(i, active, n) ==
    IF i \in active THEN i ELSE NextActive((i + 1) % n, active, n)

\* a choice of the next defender that takes the seat after the attacker
NextDefender_Seat(i, att, active, n) == i

\* while next_def not in active or next_def == attacker: next_def = ...
RECURSIVE NextDefender(_, _, _, _)
NextDefender(i, att, active, n) ==
    IF i \in active /\ i # att THEN i
    ELSE NextDefender((i + 1) % n, att, active, n)

\* a choice of the next attacker that never skips the defender's turn
NextAttacker_Defender(g, active, defender_picked) ==
    IF g.defender_idx \in active THEN g.defender_idx
    ELSE NextActive((g.defender_idx + 1) % NPlayers(g), active, NPlayers(g))

NextAttacker(g, active, defender_picked) ==
    LET n == NPlayers(g)
    IN  IF defender_picked
        THEN NextActive((g.defender_idx + 1) % n, active, n)
        ELSE IF g.defender_idx \in active THEN g.defender_idx
        ELSE NextActive((g.defender_idx + 1) % n, active, n)

_next_turn(g, defender_picked) ==
    IF \A i \in Seats(g) : P(g, i).is_out
    THEN Done([g EXCEPT !.state = "finished"])
    ELSE IF RefillRaises(g) THEN Raised(g)
    ELSE
      LET r == Refill(g.players, g.deck.cards, RefillOrder(g))
          marked == MarkOut(r.players, r.cards)
          g1 == [g EXCEPT !.players = marked,
                          !.deck.cards = r.cards,
                          !.winner_order = @ \o NewWinners(r.players, r.cards)]
          active == ActiveIdx(marked)
      IN  IF Cardinality(active) < 2
          THEN Done([g1 EXCEPT !.state = "finished"])
          ELSE LET att == NextAttacker(g1, active, defender_picked)
                   def == NextDefender((att + 1) % NPlayers(g1), att, active,
                                       NPlayers(g1))
               IN  Done([g1 EXCEPT !.attacker_idx = att,
                                 !.defender_idx = def,
                                 !.table = <<>>,
                                 !.turn_state = "attack",
                                 !.pass_count = 0])

(***************************************************************************)
(* The player actions.  A message carries card (NoCard when the key is     *)
(* missing: data.get("card") is None) and target_idx (NoIdx when missing). *)
(***************************************************************************)
\* a test for unbeaten pairs that finds none
Unbeaten_None(table) == {}

Unbeaten(table) == {i \in 1 .. Len(table) : table[i].defend = NoCard}
Beaten(table) == {i \in 1 .. Len(table) : table[i].defend # NoCard}

RanksOnTable(table) ==
    {table[i].attack.rank : i \in 1 .. Len(table)}
        \cup {table[i].defend.rank : i \in Beaten(table)}

\* p_idx of uid, -1 when not seated
PIdx(g, uid) ==
    IF Seated(g, uid)
    THEN CHOOSE i \in Seats(g) :
            P(g, i).uid = uid /\ \A j \in Seats(g) : P(g, j).uid = uid => i <= j
    ELSE -1

\* self.players[self.defender_idx] raises IndexError
NoDefender(g) == g.defender_idx >= NPlayers(g)
NoAttacker(g) == g.attacker_idx >= NPlayers(g)

\* an attack that checks neither the table limit nor the defender's hand
action_attack_NoLimit(g, uid, card) ==
    LET p_idx == PIdx(g, uid) IN
    IF p_idx = -1 THEN Return(g)
    ELSE IF p_idx = g.defender_idx THEN Return(g)
    ELSE IF g.table = <<>> /\ p_idx # g.attacker_idx THEN Return(g)
    ELSE IF card = NoCard THEN Raised(g)
    ELSE IF ~InHand(P(g, p_idx).hand, card) THEN Return(g)
    ELSE IF g.table # <<>> /\ card.rank \notin RanksOnTable(g.table) THEN Return(g)
    ELSE IF NoDefender(g) THEN Raised(g)
    ELSE Done([g EXCEPT !.players[p_idx + 1].hand = Without(@, card),
                        !.table = Append(@, [attack |-> card, defend |-> NoCard]),
                        !.turn_state = "defend",
                        !.pass_count = 0])

action_attack(g, uid, card) ==
    LET p_idx == PIdx(g, uid) IN
    IF p_idx = -1 THEN Return(g)
    ELSE IF p_idx = g.defender_idx THEN Return(g)
    ELSE IF g.table = <<>> /\ p_idx # g.attacker_idx THEN Return(g)
    ELSE IF card = NoCard THEN Raised(g)
    ELSE IF ~InHand(P(g, p_idx).hand, card) THEN Return(g)
    ELSE IF g.table # <<>> /\ card.rank \notin RanksOnTable(g.table) THEN Return(g)
    ELSE IF Len(g.table) >= MAX_TABLE THEN Return(g)
    ELSE IF NoDefender(g) THEN Raised(g)
    ELSE IF Cardinality(Unbeaten(g.table)) + 1 > HandLen(P(g, g.defender_idx).hand)
         THEN Return(g)
    ELSE Done([g EXCEPT !.players[p_idx + 1].hand = Without(@, card),
                        !.table = Append(@, [attack |-> card, defend |-> NoCard]),
                        !.turn_state = "defend",
                        !.pass_count = 0])

\* a beats rule under which any card of another suit beats
Beats_AnySuit(atk_card, def_card, trump_suit) ==
    IF atk_card.suit = def_card.suit
    THEN rank_value(def_card.rank) > rank_value(atk_card.rank)
    ELSE TRUE

\* the beats rule of action_defend
Beats(atk_card, def_card, trump_suit) ==
    IF atk_card.suit = def_card.suit
    THEN rank_value(def_card.rank) > rank_value(atk_card.rank)
    ELSE def_card.suit = trump_suit

action_defend(g, uid, attack_card_idx, card) ==
    IF NoDefender(g) THEN Raised(g)
    ELSE IF P(g, g.defender_idx).uid # uid THEN Return(g)
    ELSE IF attack_card_idx = NoIdx THEN Raised(g)
    ELSE IF attack_card_idx < 0 \/ attack_card_idx >= Len(g.table) THEN Return(g)
    ELSE IF g.table[attack_card_idx + 1].defend # NoCard THEN Return(g)
    ELSE IF card = NoCard THEN Raised(g)
    ELSE IF ~InHand(P(g, g.defender_idx).hand, card) THEN Return(g)
    ELSE IF ~Beats(g.table[attack_card_idx + 1].attack, card, g.trump_suit)
         THEN Return(g)
    ELSE Done([g EXCEPT !.players[g.defender_idx + 1].hand = Without(@, card),
                        !.table[attack_card_idx + 1].defend = card])

\* for pair in self.table: hand.append(pair[0]); if pair[1]: hand.append(pair[1])
RECURSIVE TakeAll(_, _)
TakeAll(hand, table) ==
    IF table = <<>> THEN hand
    ELSE LET pair == Head(table)
             h1 == HandAdd(hand, pair.attack)
         IN  TakeAll(IF pair.defend # NoCard THEN HandAdd(h1, pair.defend) ELSE h1,
                     Tail(table))

action_take(g, uid) ==
    IF NoDefender(g) THEN Raised(g)
    ELSE IF P(g, g.defender_idx).uid # uid THEN Return(g)
    ELSE _next_turn([g EXCEPT !.players[g.defender_idx + 1].hand =
                                  TakeAll(@, g.table)], TRUE)

action_pass(g, uid) ==
    IF NoDefender(g) THEN Raised(g)
    ELSE IF uid = P(g, g.defender_idx).uid THEN Return(g)
    ELSE IF Unbeaten(g.table) # {} THEN Return(g)
    ELSE IF NoAttacker(g) THEN Raised(g)
    ELSE IF uid = P(g, g.attacker_idx).uid THEN _next_turn(g, FALSE)
    ELSE Return(g)

\* a transfer target that stays on the defender
next_p_idx_Stays(g) == g.defender_idx

\* next_p_idx = (self.defender_idx + 1) % len(self.players)
next_p_idx(g) == (g.defender_idx + 1) % NPlayers(g)

\* a transfer that does not look at the next player's hand
action_transfer_NoHand(g, uid, card) ==
    IF g.settings.mode # "perevodnoy" THEN Return(g)
    ELSE IF NoDefender(g) THEN Raised(g)
    ELSE IF P(g, g.defender_idx).uid # uid THEN Return(g)
    ELSE IF Beaten(g.table) # {} THEN Return(g)
    ELSE IF card = NoCard THEN Raised(g)
    ELSE IF g.table = <<>> THEN Return(g)
    ELSE IF g.table[1].attack.rank # card.rank THEN Return(g)
    ELSE IF ~InHand(P(g, g.defender_idx).hand, card) THEN Return(g)
    ELSE Done([g EXCEPT !.players[g.defender_idx + 1].hand = Without(@, card),
                        !.table = Append(@, [attack |-> card, defend |-> NoCard]),
                        !.attacker_idx = g.defender_idx,
                        !.defender_idx = next_p_idx(g)])

\* a transfer that asks the next player for one card less
action_transfer_Short(g, uid, card) ==
    IF g.settings.mode # "perevodnoy" THEN Return(g)
    ELSE IF NoDefender(g) THEN Raised(g)
    ELSE IF P(g, g.defender_idx).uid # uid THEN Return(g)
    ELSE IF Beaten(g.table) # {} THEN Return(g)
    ELSE IF card = NoCard THEN Raised(g)
    ELSE IF g.table = <<>> THEN Return(g)
    ELSE IF g.table[1].attack.rank # card.rank THEN Return(g)
    ELSE IF ~InHand(P(g, g.defender_idx).hand, card) THEN Return(g)
    ELSE IF HandLen(P(g, next_p_idx(g)).hand) < Len(g.table) THEN Return(g)
    ELSE Done([g EXCEPT !.players[g.defender_idx + 1].hand = Without(@, card),
                        !.table = Append(@, [attack |-> card, defend |-> NoCard]),
                        !.attacker_idx = g.defender_idx,
                        !.defender_idx = next_p_idx(g)])

action_transfer(g, uid, card) ==
    IF g.settings.mode # "perevodnoy" THEN Return(g)
    ELSE IF NoDefender(g) THEN Raised(g)
    ELSE IF P(g, g.defender_idx).uid # uid THEN Return(g)
    ELSE IF Beaten(g.table) # {} THEN Return(g)
    ELSE IF card = NoCard THEN Raised(g)
    ELSE IF g.table = <<>> THEN Return(g)
    ELSE IF g.table[1].attack.rank # card.rank THEN Return(g)
    ELSE IF ~InHand(P(g, g.defender_idx).hand, card) THEN Return(g)
    ELSE IF HandLen(P(g, next_p_idx(g)).hand) < Len(g.table) + 1 THEN Return(g)
    ELSE Done([g EXCEPT !.players[g.defender_idx + 1].hand = Without(@, card),
                        !.table = Append(@, [attack |-> card, defend |-> NoCard]),
                        !.attacker_idx = g.defender_idx,
                        !.defender_idx = next_p_idx(g)])

(***************************************************************************)
(* get_snapshot: the state as shown to the user for_uid.  room_id and the  *)
(* players' names never change and are left out.                           *)
(***************************************************************************)
\* a snapshot that shows every hand
get_snapshot_Open(g, for_uid) ==
    [ state      |-> g.state,
      trump_suit |-> g.trump_suit,
      trump_card |-> g.trump_card,
      deck_count |-> IF g.deck.none THEN 0 ELSE Len(g.deck.cards),
      table      |-> g.table,
      players    |-> [i \in 1 .. NPlayers(g) |->
                        [ uid         |-> g.players[i].uid,
                          cards_count |-> HandLen(g.players[i].hand),
                          is_attacker |-> (i - 1 = g.attacker_idx),
                          is_defender |-> (i - 1 = g.defender_idx),
                          is_out      |-> g.players[i].is_out,
                          ready       |-> g.players[i].is_ready,
                          hand        |-> g.players[i].hand ]],
      turn_state |-> g.turn_state ]

get_snapshot(g, for_uid) ==
    [ state      |-> g.state,
      trump_suit |-> g.trump_suit,
      trump_card |-> g.trump_card,
      deck_count |-> IF g.deck.none THEN 0 ELSE Len(g.deck.cards),
      table      |-> g.table,
      players    |-> [i \in 1 .. NPlayers(g) |->
                        [ uid         |-> g.players[i].uid,
                          cards_count |-> HandLen(g.players[i].hand),
                          is_attacker |-> (i - 1 = g.attacker_idx),
                          is_defender |-> (i - 1 = g.defender_idx),
                          is_out      |-> g.players[i].is_out,
                          ready       |-> g.players[i].is_ready,
                          hand        |-> IF g.players[i].uid = for_uid
                                          THEN g.players[i].hand ELSE EmptyBag ]],
      turn_state |-> g.turn_state ]

(***************************************************************************)
(* DurakManager.                                                           *)
(***************************************************************************)
\* all(p.is_ready for p in game.players) and len(game.players) >= 2
AllReady(g) == (\A i \in Seats(g) : P(g, i).is_ready) /\ NPlayers(g) >= 2

\* handle_message, action == "ready"; k is the outcome of the shuffle
handle_ready(g, uid, k) ==
    IF AllReady(set_ready(g, uid))
    THEN Done(start_game(set_ready(g, uid), k))
    ELSE Done(set_ready(g, uid))

\* a payout that also credits the loser
process_win_All(g, ledger) ==
    [u \in Users |-> IF Seated(g, u) THEN ledger[u] + WIN_REWARD ELSE ledger[u]]

\* process_win: the add_points calls, as the new ledger
process_win(g, ledger) ==
    LET active == ActiveIdx(g.players)
        loser_uid == IF Cardinality(active) = 1
                     THEN P(g, CHOOSE i \in active : TRUE).uid ELSE 0
    IN  [u \in Users |->
            IF Seated(g, u) /\ u # loser_uid THEN ledger[u] + WIN_REWARD
            ELSE ledger[u]]

\* a dispatch whose take is suspended between the pick-up of the table and
\* _next_turn
Dispatch_Torn(g, m, k) ==
    CASE m.action = "ready"    -> handle_ready(g, m.uid, k)
      [] m.action = "attack"   -> action_attack(g, m.uid, m.card)
      [] m.action = "defend"   -> action_defend(g, m.uid, m.target_idx, m.card)
      [] m.action = "take"     ->
             IF NoDefender(g) \/ P(g, g.defender_idx).uid # m.uid
             THEN action_take(g, m.uid)
             ELSE Done([g EXCEPT !.players[g.defender_idx + 1].hand =
                                     TakeAll(@, g.table)])
      [] m.action = "pass"     -> action_pass(g, m.uid)
      [] m.action = "transfer" -> action_transfer(g, m.uid, m.card)

\* the dispatch of handle_message
Dispatch(g, m, k) ==
    CASE m.action = "ready"    -> handle_ready(g, m.uid, k)
      [] m.action = "attack"   -> action_attack(g, m.uid, m.card)
      [] m.action = "defend"   -> action_defend(g, m.uid, m.target_idx, m.card)
      [] m.action = "take"     -> action_take(g, m.uid)
      [] m.action = "pass"     -> action_pass(g, m.uid)
      [] m.action = "transfer" -> action_transfer(g, m.uid, m.card)

\* the ledger after handle_message: process_win runs when the dispatch did
\* not raise and the game is finished
Settle(r, ledger) ==
    IF r.outcome # "raised" /\ r.g.state = "finished"
    THEN process_win(r.g, ledger) ELSE ledger

Msg(a, u, c, i) == [action |-> a, uid |-> u, card |-> c, target_idx |-> i]

\* one card that is not among held
Foreign(held) ==
    LET others == AllCards \ held
    IN  IF others = {} THEN {} ELSE {CHOOSE c \in others : TRUE}

\* the messages of client u.  When u holds the role the action asks for (an
\* attack or throw-in from a seat that is not the defender, a defence or a
\* transfer from the defender) the card is any card of its hand, one it does
\* not hold, or missing, and the index of a defence is any index of the
\* table, the one before, the one after, or missing; otherwise one message
\* per action, with a card of the hand when there is one
UserMessages(g, u) ==
    LET idx == PIdx(g, u)
        held == IF idx = -1 THEN {} ELSE BagToSet(P(g, idx).hand)
        foreign == Foreign(held)
        inputs == held \cup foreign
        is_def == idx # -1 /\ idx = g.defender_idx
        one == IF held = {} THEN foreign ELSE {CHOOSE c \in held : TRUE}
    IN  {Msg(a, u, NoCard, NoIdx) : a \in {"ready", "take", "pass"}}
        \cup (IF idx # -1 /\ ~is_def
              THEN {Msg("attack", u, c, NoIdx) : c \in inputs \cup {NoCard}}
              ELSE {Msg("attack", u, c, NoIdx) : c \in one})
        \cup (IF is_def
              THEN {Msg("transfer", u, c, NoIdx) : c \in inputs \cup {NoCard}}
                   \cup {Msg("defend", u, c, i) : c \in inputs,
                                                  i \in -1 .. Len(g.table)}
                   \cup {Msg("defend", u, c, NoIdx) : c \in foreign}
                   \cup {Msg("defend", u, NoCard, 0)}
              ELSE {Msg(a, u, c, 0) : a \in {"defend", "transfer"}, c \in one})

\* the messages that are delivered to the room in state g
Messages(g) == UNION {UserMessages(g, u) : u \in Users}

MaxOf(S) == CHOOSE x \in S : \A y \in S : y <= x
\* the number of payouts the user with the most of them has received
Settlements(ledger) ==
    MaxOf({(ledger[u] + JOIN_COST) \div WIN_REWARD : u \in Users})
HandsWithin(g) == \A i \in Seats(g) : HandLen(P(g, i).hand) <= MaxHand

(***************************************************************************)
(* The state machine.  Init is the room after create_room by user 1, who   *)
(* has paid JOIN_COST.                                                     *)
(***************************************************************************)
Init ==
    /\ \E mode \in Modes : game = add_player(NewGame(mode), 1)
    /\ points = [u \in Users |-> IF u = 1 THEN -JOIN_COST ELSE 0]
    /\ redealt = 0
    /\ ManagerInit

\* join_room for a user that is not seated and has JOIN_COST points: when
\* game.add_player(uid, name) seats the user, add_points(uid, -JOIN_COST);
\* the users join in the order of their ids
JoinRoom(uid) ==
    /\ uid = NPlayers(game) + 1
    /\ game' = add_player(game, uid)
    /\ points' = IF add_player(game, uid) # game
                 THEN [points EXCEPT ![uid] = @ - JOIN_COST] ELSE points
    /\ UNCHANGED <<redealt, mvars>>

\* handle_message: the dispatch, then process_win when the game is finished
\* a ready message that deals a started game again
Redeals(g, m) ==
    m.action = "ready" /\ g.state # "waiting" /\ AllReady(set_ready(g, m.uid))

HandleMessage(m, k) ==
    \E r \in {Dispatch(game, m, k)} :
      \E ledger \in {Settle(r, points)}, again \in {Redeals(game, m)} :
        /\ redealt = 0 \/ (redealt <= MaxAfter /\ ~again)
        /\ HandsWithin(r.g)
        /\ Settlements(ledger) <= MaxSettle
        /\ game' = r.g
        /\ points' = ledger
        /\ redealt' = IF again THEN 1
                      ELSE IF redealt > 0 /\ <<r.g, ledger>> # <<game, points>>
                           THEN redealt + 1
                      ELSE redealt
        /\ UNCHANGED mvars

Next ==
    \/ \E uid \in Users : JoinRoom(uid)
    \/ \E m \in Messages(game), k \in 1 .. NumShuffles : HandleMessage(m, k)

Spec == Init /\ [][Next]_vars

(***************************************************************************)
(* Properties.                                                             *)
(***************************************************************************)
\* the cards the room accounts for: the deck, the hands, two for a defended
\* pair of the table and one for an unbeaten one
CardsInPlay(g) ==
    Len(g.deck.cards)
    + SumSeq([i \in 1 .. NPlayers(g) |-> HandLen(g.players[i].hand)])
    + 2 * Cardinality(Beaten(g.table))
    + Cardinality(Unbeaten(g.table))

\* C1: while the game is playing, deck size + the sum of the hand sizes
\* + 2 x (defended pairs of the table) + (unbeaten pairs of the table)
\* equals the deck's initial size
C1_CardConservation ==
    game.state = "playing" => CardsInPlay(game) = DeckSize

\* the rule the claim states for a defending card
LegalDefence(atk_card, def_card, trump_suit) ==
    \/ def_card.suit = atk_card.suit
       /\ rank_value(def_card.rank) > rank_value(atk_card.rank)
    \/ def_card.suit = trump_suit /\ atk_card.suit # trump_suit

\* the defend messages of the defender that name an open pair of the table
\* and a card of the defender's hand
DefendsInHand(g) ==
    {m \in Messages(g) :
        /\ m.action = "defend"
        /\ ~NoDefender(g)
        /\ m.uid = P(g, g.defender_idx).uid
        /\ m.target_idx \in 0 .. Len(g.table) - 1
        /\ m.card # NoCard
        /\ g.table[m.target_idx + 1].defend = NoCard
        /\ InHand(P(g, g.defender_idx).hand, m.card)}

Hands(g) == [i \in 1 .. NPlayers(g) |-> g.players[i].hand]

\* the targeted pair becomes defended and the card leaves the defender's hand
DefendAccepted(g, m, h) ==
    /\ h.table[m.target_idx + 1].defend = m.card
    /\ ~InHand(h.players[g.defender_idx + 1].hand, m.card)

\* C2: a defend is accepted only with a card of the attack card's suit and a
\* strictly higher rank, or a trump against an attack card that is no trump;
\* a card that is neither leaves the table and the hands unchanged
C2_DefendBeats ==
    \A m \in DefendsInHand(game) :
        LET h == Dispatch(game, m, 1).g
            legal == LegalDefence(game.table[m.target_idx + 1].attack, m.card,
                                  game.trump_suit)
        IN  /\ DefendAccepted(game, m, h) => legal
            /\ ~legal => h.table = game.table /\ Hands(h) = Hands(game)

\* a defence has been accepted with a trump over a card of another suit, and
\* the defender holds a card that does not beat an open attack card
C2_Witness ==
    /\ game.state = "playing"
    /\ \E i \in Beaten(game.table) :
          /\ game.table[i].defend.suit = game.trump_suit
          /\ game.table[i].attack.suit # game.trump_suit
    /\ \E m \in DefendsInHand(game) :
          ~LegalDefence(game.table[m.target_idx + 1].attack, m.card, game.trump_suit)

NotOut(g) == {P(g, i).uid : i \in {j \in Seats(g) : ~P(g, j).is_out}}

\* C4: when process_win runs on a finished game with a single non-out
\* player, that player is credited nothing and every other seated player
\* is credited exactly WIN_REWARD
C4_Payout ==
    [][game'.state = "finished" /\ Cardinality(NotOut(game')) = 1
        => \A u \in Users :
              points'[u] - points[u] =
                  IF Seated(game', u) /\ u \notin NotOut(game')
                  THEN WIN_REWARD ELSE 0]_vars

\* a finished three-player game after its first payout: the loser holds
\* cards and has received nothing, the two others WIN_REWARD each
C4_Witness ==
    /\ game.state = "finished"
    /\ NPlayers(game) = 3
    /\ Cardinality(NotOut(game)) = 1
    /\ \A i \in Seats(game) :
          points[P(game, i).uid] =
              (IF P(game, i).is_out THEN WIN_REWARD ELSE 0) - JOIN_COST
    /\ \E i \in Seats(game) : ~P(game, i).is_out /\ HandLen(P(game, i).hand) > 0

\* C5 as stated: a finished game has exactly one seated player that is not
\* out
C5_ExactlyOneLoser ==
    game.state = "finished" => Cardinality(NotOut(game)) = 1

\* C5: a finished game has at most one seated player that is not out
C5_AtMostOneLoser ==
    game.state = "finished" => Cardinality(NotOut(game)) <= 1

\* a finished two-player game whose loser is left holding cards
C5_Witness ==
    /\ game.state = "finished"
    /\ NPlayers(game) = 2
    /\ \E i \in Seats(game) :
          /\ NotOut(game) = {P(game, i).uid}
          /\ HandLen(P(game, i).hand) > 0

\* a hand of n cards: the first n of the ordered deck, or the last n
FirstCards(n) == SetToBag({OrderedCards[j] : j \in 1 .. n})
LastCards(n) == SetToBag({OrderedCards[DeckSize + 1 - j] : j \in 1 .. n})

\* g with the hand of every seat but u's replaced by hand(its size)
OtherHands(g, u, hand(_)) ==
    [g EXCEPT !.players =
        [i \in 1 .. Len(@) |->
            IF @[i].uid = u THEN @[i]
            ELSE [@[i] EXCEPT !.hand = hand(HandLen(@))]]]

\* g with the undrawn cards above the trump card in the reverse order
DeckReversed(g) ==
    [g EXCEPT !.deck.cards =
        IF @ = <<>> THEN @
        ELSE <<@[1]>> \o [j \in 1 .. Len(@) - 1 |-> @[Len(@) + 1 - j]]]

\* games that differ from g in the contents, not the sizes, of the hands of
\* the users other than u, and in the order of the deck above the trump card
Lookalikes(g, u) ==
    {OtherHands(DeckReversed(g), u, FirstCards), OtherHands(g, u, LastCards)}

\* C6: the snapshot for a viewer holds the hand of the viewer's seat only;
\* every other seat shows an empty hand and its true cards_count; so games
\* that differ only in the other hands' contents and in the order of the
\* deck above the trump card give the viewer the same snapshot
C6_SnapshotHidesHands ==
    \A u \in Users :
        LET snap == get_snapshot(game, u) IN
        /\ \A i \in 1 .. NPlayers(game) :
              /\ snap.players[i].cards_count = HandLen(game.players[i].hand)
              /\ snap.players[i].hand =
                     IF game.players[i].uid = u THEN game.players[i].hand
                     ELSE EmptyBag
        /\ \A h \in Lookalikes(game, u) : get_snapshot(h, u) = snap

\* a three-player game in play where a viewer holds cards, both other
\* players hold cards, and the two lookalikes are other games than this one
C6_Witness ==
    /\ game.state = "playing"
    /\ NPlayers(game) = 3
    /\ \A i \in Seats(game) : HandLen(P(game, i).hand) > 0
    /\ \E u \in Users :
          /\ Seated(game, u)
          /\ get_snapshot(game, u).players[PIdx(game, u) + 1].hand # EmptyBag
          /\ \A h \in Lookalikes(game, u) : h # game

\* the preconditions of the claim, for message m in game g
SenderIdx(g, m) == PIdx(g, m.uid)
IsDefender(g, m) == SenderIdx(g, m) # -1 /\ SenderIdx(g, m) = g.defender_idx
IsAttacker(g, m) == SenderIdx(g, m) # -1 /\ SenderIdx(g, m) = g.attacker_idx
HoldsCard(g, m) ==
    SenderIdx(g, m) # -1 /\ m.card \in BagToSet(P(g, SenderIdx(g, m)).hand)

WrongRole(g, m) ==
    CASE m.action = "attack" ->
            \/ SenderIdx(g, m) = -1
            \/ IsDefender(g, m)
            \/ g.table = <<>> /\ ~IsAttacker(g, m)
      [] m.action \in {"defend", "take", "transfer"} -> ~IsDefender(g, m)
      [] m.action = "pass" -> ~IsAttacker(g, m)
      [] OTHER -> FALSE

CardNotHeld(g, m) ==
    /\ m.action \in {"attack", "defend", "transfer"}
    /\ m.card # NoCard
    /\ ~HoldsCard(g, m)

BadTarget(g, m) ==
    /\ m.action = "defend"
    /\ m.target_idx # NoIdx
    /\ \/ m.target_idx \notin 0 .. Len(g.table) - 1
       \/ g.table[m.target_idx + 1].defend # NoCard

DoesNotBeat(g, m) ==
    /\ m.action = "defend"
    /\ m.card # NoCard
    /\ m.target_idx \in 0 .. Len(g.table) - 1
    /\ ~LegalDefence(g.table[m.target_idx + 1].attack, m.card, g.trump_suit)

RankNotOnTable(g, m) ==
    /\ m.action = "attack"
    /\ m.card # NoCard
    /\ g.table # <<>>
    /\ m.card.rank \notin RanksOnTable(g.table)

Violates(g, m) ==
    \/ WrongRole(g, m)
    \/ CardNotHeld(g, m)
    \/ BadTarget(g, m)
    \/ DoesNotBeat(g, m)
    \/ RankNotOnTable(g, m)

\* C7: while the game is playing, an attack, defend, take, pass or transfer
\* with a violated precondition (wrong role, card not held, card that does
\* not beat, target out of range or already defended, throw-in rank not on
\* the table) leaves every field of the game unchanged
C7_RejectedUnchanged ==
    game.state = "playing" =>
        \A m \in Messages(game) :
            Violates(game, m) => Dispatch(game, m, 1).g = game

\* a game in play with a defended and an open pair on the table, where a
\* message of each kind is turned away by an early return: a held card that
\* does not beat, a defended target, a throw-in of a held card whose rank is
\* not on the table, a card that is not held, a take from the wrong seat
C7_Witness ==
    /\ game.state = "playing"
    /\ Beaten(game.table) # {} /\ Unbeaten(game.table) # {}
    /\ \A kind \in 1 .. 5 :
          \E m \in Messages(game) :
              /\ Dispatch(game, m, 1).outcome = "returned"
              /\ CASE kind = 1 -> DoesNotBeat(game, m) /\ HoldsCard(game, m)
                                  /\ ~BadTarget(game, m) /\ ~WrongRole(game, m)
                   [] kind = 2 -> BadTarget(game, m) /\ HoldsCard(game, m)
                                  /\ m.target_idx \in 0 .. Len(game.table) - 1
                   [] kind = 3 -> RankNotOnTable(game, m) /\ HoldsCard(game, m)
                                  /\ ~WrongRole(game, m)
                   [] kind = 4 -> CardNotHeld(game, m) /\ ~WrongRole(game, m)
                   [] kind = 5 -> WrongRole(game, m) /\ m.action = "take"

\* C8: no message raises an error, whatever the state of the room,
\* a waiting room with one or two seated players included
C8_NothingRaises ==
    \A m \in Messages(game) : Dispatch(game, m, 1).outcome # "raised"

\* C9: finished and aborted are terminal and playing never returns to
\* waiting, whatever messages arrive
C9_StateOrder ==
    [][/\ game.state \in {"finished", "aborted"} => game'.state = game.state
       /\ game.state = "playing" => game'.state # "waiting"]_vars

IsPrefix(s, t) == Len(s) <= Len(t) /\ SubSeq(t, 1, Len(s)) = s
NoDuplicates(s) == \A i, j \in 1 .. Len(s) : s[i] = s[j] => i = j

\* C10: a player that is out stays out, and every step leaves the previous
\* winner_order as a prefix of the new one, in which no user id is twice
C10_OutOneWay ==
    [][/\ \A i \in 1 .. NPlayers(game) :
             game.players[i].is_out => game'.players[i].is_out
       /\ IsPrefix(game.winner_order, game'.winner_order)
       /\ NoDuplicates(game'.winner_order)]_vars

\* a finished three-player game with two players in winner_order, after a
\* second message has reached the finished room
C10_Witness ==
    /\ NPlayers(game) = 3
    /\ Len(game.winner_order) = 2
    /\ game.state = "finished"
    /\ points[game.winner_order[1]] = 2 * WIN_REWARD - JOIN_COST

\* the first seat of g, in seat order after seat i, whose player is not out
\* (seat i itself when every player is out)
FirstNotOutAfter(g, i) ==
    LET n == NPlayers(g)
        seats == {j \in Seats(g) : ~P(g, j).is_out}
    IN  IF seats = {} THEN i
        ELSE CHOOSE j \in seats :
                 \A l \in seats : (j - i - 1) % n <= (l - i - 1) % n

\* the cards of a table, attack and defend cards, as a bag
RECURSIVE TableCards(_)
TableCards(table) ==
    IF table = <<>> THEN EmptyBag
    ELSE LET pair == Head(table)
         IN  SetToBag({pair.attack})
             (+) (IF pair.defend = NoCard THEN EmptyBag ELSE SetToBag({pair.defend}))
             (+) TableCards(Tail(table))

\* C11: after an accepted take that leaves the game playing the table is
\* empty, every card of the old table is in the old defender's hand, and
\* the new attacker is the first non-out player after the old defender
C11_TakeRotates ==
    \A u \in Users :
        LET r == Dispatch(game, Msg("take", u, NoCard, NoIdx), 1)
            d == game.defender_idx
        IN  r.outcome = "done" /\ r.g.state = "playing" =>
              /\ r.g.table = <<>>
              /\ (P(game, d).hand (+) TableCards(game.table))
                     \sqsubseteq P(r.g, d).hand
              /\ r.g.attacker_idx = FirstNotOutAfter(r.g, d)

\* a three-player game in which the defender has taken: the table is empty,
\* a hand is larger than a dealt one, and no game was dealt a second time
C11_Witness ==
    /\ game.state = "playing"
    /\ NPlayers(game) = 3
    /\ redealt = 0
    /\ game.table = <<>>
    /\ \E i \in Seats(game) :
          /\ HandLen(P(game, i).hand) > HandSize
          /\ game.attacker_idx = FirstNotOutAfter(game, i)
    /\ \E i \in Seats(game) : P(game, i).is_out

\* C12: after an accepted pass on a table with no unbeaten pair that leaves
\* the game playing, the new attacker is the old defender when that player
\* is not out, else the first non-out player after the old defender; the
\* new defender is the first non-out player after the new attacker
C12_PassRotates ==
    \A u \in Users :
        LET r == Dispatch(game, Msg("pass", u, NoCard, NoIdx), 1)
            d == game.defender_idx
        IN  r.outcome = "done" /\ r.g.state = "playing" =>
              /\ r.g.attacker_idx =
                     IF ~P(r.g, d).is_out THEN d ELSE FirstNotOutAfter(r.g, d)
              /\ r.g.defender_idx = FirstNotOutAfter(r.g, r.g.attacker_idx)

\* a game in play where the attacker's pass is accepted on a beaten table,
\* the defender goes out by it and the game goes on
C12_Witness ==
    /\ game.state = "playing"
    /\ game.table # <<>>
    /\ \E u \in Users :
          LET r == Dispatch(game, Msg("pass", u, NoCard, NoIdx), 1)
          IN  /\ r.outcome = "done"
              /\ r.g.state = "playing"
              /\ ~P(game, game.defender_idx).is_out
              /\ P(r.g, game.defender_idx).is_out
              /\ r.g.attacker_idx # game.defender_idx

\* a pass that the claim says changes nothing: from the defender, from a
\* seat that is not the attacker, or while a pair is unbeaten
PassOutOfTurn(g, u) ==
    \/ ~NoDefender(g) /\ P(g, g.defender_idx).uid = u
    \/ NoAttacker(g) \/ P(g, g.attacker_idx).uid # u
    \/ \E i \in 1 .. Len(g.table) : g.table[i].defend = NoCard

\* C13: a pass ends the trick only from the main attacker while no pair is
\* unbeaten; a pass from the defender, from a seat that is not the
\* attacker, or while a pair is unbeaten leaves the game unchanged
C13_PassOnlyAttacker ==
    \A u \in Users :
        PassOutOfTurn(game, u) =>
            Dispatch(game, Msg("pass", u, NoCard, NoIdx), 1).g = game

\* a game in play with an unbeaten pair on the table, where the attacker's
\* pass returns early, and so does the pass of the third player
C13_Witness ==
    /\ game.state = "playing"
    /\ NPlayers(game) = 3
    /\ \E i \in 1 .. Len(game.table) : game.table[i].defend = NoCard
    /\ \A u \in Users :
          u # P(game, game.defender_idx).uid =>
              Dispatch(game, Msg("pass", u, NoCard, NoIdx), 1).outcome = "returned"

\* the number of pairs of a table that have no defend card
UnbeatenPairs(table) ==
    Cardinality({i \in 1 .. Len(table) : table[i].defend = NoCard})

\* one more attack card would leave more unbeaten pairs than the defender
\* holds cards, or more pairs on the table than the limit
AttackOverLimit(g) ==
    \/ UnbeatenPairs(g.table) + 1 > HandLen(P(g, g.defender_idx).hand)
    \/ Len(g.table) + 1 > MAX_TABLE

\* C14: an attack is rejected with the game unchanged whenever accepting it
\* would make the unbeaten pairs exceed the defender's hand size or the
\* table exceed its limit
C14_AttackLimits ==
    \A u \in Users, c \in AllCards \cup {NoCard} :
        ~NoDefender(game) /\ AttackOverLimit(game) =>
            Dispatch(game, Msg("attack", u, c, NoIdx), 1).g = game

\* a full table of beaten pairs in front of a defender who still holds
\* cards: a throw-in of a held card of a rank on the table is refused
C14_Witness ==
    /\ game.state = "playing"
    /\ Len(game.table) = MAX_TABLE
    /\ UnbeatenPairs(game.table) = 0
    /\ HandLen(P(game, game.defender_idx).hand) > 0
    /\ \E i \in Seats(game) :
          /\ i # game.defender_idx
          /\ \E c \in BagToSet(P(game, i).hand) :
                /\ \E k \in 1 .. Len(game.table) :
                      c.rank \in {game.table[k].attack.rank, game.table[k].defend.rank}
                /\ Dispatch(game, Msg("attack", P(game, i).uid, c, NoIdx), 1).outcome
                       = "returned"

\* the conditions under which the claim says an attack is accepted
AttackAllowed(g, u, c) ==
    \E i \in Seats(g) :
        /\ P(g, i).uid = u
        /\ c \in BagToSet(P(g, i).hand)
        /\ ~NoDefender(g)
        /\ ~AttackOverLimit(g)
        /\ \/ i = g.attacker_idx /\ g.table = <<>>
           \/ /\ g.table # <<>>
              /\ i # g.defender_idx
              /\ \E k \in 1 .. Len(g.table) :
                    c.rank \in {g.table[k].attack.rank, g.table[k].defend.rank}

\* the hand of user u in g, the empty bag when u has no seat
HandOf(g, u) ==
    IF \E i \in Seats(g) : P(g, i).uid = u
    THEN P(g, CHOOSE i \in Seats(g) : P(g, i).uid = u).hand
    ELSE EmptyBag

\* C15: an attack is accepted exactly when the card is in the sender's
\* hand, the limits hold, and the sender is the attacker on an empty table
\* or a non-defender with a card of a rank on a non-empty table; on
\* acceptance the card moves from the hand to the table as a new unbeaten
\* pair and turn_state becomes defend
C15_AttackAccepted ==
    \A u \in Users, c \in AllCards :
        LET r == Dispatch(game, Msg("attack", u, c, NoIdx), 1)
        IN  /\ r.outcome = "done" <=> AttackAllowed(game, u, c)
            /\ r.outcome = "done" =>
                  /\ HandOf(r.g, u) (+) SetToBag({c}) = HandOf(game, u)
                  /\ r.g.table = Append(game.table, [attack |-> c, defend |-> NoCard])
                  /\ r.g.turn_state = "defend"

(***************************************************************************)
(* A room that was dealt twice.  The second specification starts where     *)
(* create_room, join_room and the ready messages of all users have dealt   *)
(* the room (start_game with shuffle k1), and one more ready message has   *)
(* dealt it again (start_game with shuffle k2) on top of the hands of the  *)
(* first deal.  From there it follows the attack, defend and transfer      *)
(* messages of handle_message.                                             *)
(***************************************************************************)
\* the room after create_room by user 1 and join_room by users 2 .. n
RECURSIVE JoinedRoom(_, _)
JoinedRoom(mode, n) ==
    IF n = 1 THEN add_player(NewGame(mode), 1)
    ELSE add_player(JoinedRoom(mode, n - 1), n)

\* the room after the ready messages of users 1 .. u, shuffle k at the deal
RECURSIVE ReadyRoom(_, _, _, _)
ReadyRoom(mode, n, u, k) ==
    IF u = 0 THEN JoinedRoom(mode, n)
    ELSE handle_ready(ReadyRoom(mode, n, u - 1, k), u, k).g

InitRedeal ==
    \E mode \in Modes, n \in 2 .. NumUsers, k1, k2 \in 1 .. RedealShuffles :
        /\ game = handle_ready(ReadyRoom(mode, n, n, k1), 1, k2).g
        /\ points = [u \in Users |-> IF u <= n THEN -JOIN_COST ELSE 0]
        /\ redealt = 1
        /\ ManagerInit

\* handle_message for an attack, defend or transfer message
PlayMessage(m) ==
    /\ m.action \in {"attack", "defend", "transfer"}
    /\ \E r \in {Dispatch(game, m, 1)} :
          /\ game' = r.g
          /\ points' = Settle(r, points)
    /\ UNCHANGED <<redealt, mvars>>

NextRedeal == \E m \in Messages(game) : PlayMessage(m)

SpecRedeal == InitRedeal /\ [][NextRedeal]_vars

\* C16: in every reachable state the table holds no more pairs than the
\* limit of action_attack, also after transfers
C16_TableWithinLimit == Len(game.table) <= MAX_TABLE

\* the number of cards of a hand, copies counted
Held(hand) == BagCardinality(hand)

\* C17 as stated: while the game is playing the table holds at most as
\* many pairs as the defender holds cards
C17_TableWithinHand ==
    game.state = "playing" =>
        Len(game.table) <= Held(P(game, game.defender_idx).hand)

\* C17, amended: an accepted attack or transfer leaves at most as many
\* unbeaten pairs on the table as the defender it leaves holds cards
C17_UnbeatenWithinHand ==
    \A u \in Users, c \in AllCards, a \in {"attack", "transfer"} :
        LET r == Dispatch(game, Msg(a, u, c, NoIdx), 1)
        IN  r.outcome = "done" =>
                UnbeatenPairs(r.g.table) <= Held(P(r.g, r.g.defender_idx).hand)

\* a game in play where a throw-in is accepted that leaves more pairs on
\* the table than the defender holds cards, and exactly as many unbeaten
\* pairs as the defender holds cards
C17_Witness ==
    /\ game.state = "playing"
    /\ \E u \in Users, c \in AllCards :
          LET r == Dispatch(game, Msg("attack", u, c, NoIdx), 1)
          IN  /\ r.outcome = "done"
              /\ Len(r.g.table) > Held(P(r.g, r.g.defender_idx).hand)
              /\ UnbeatenPairs(r.g.table) = Held(P(r.g, r.g.defender_idx).hand)

\* the seat after the defender's
SeatAfterDefender(g) == (g.defender_idx + 1) % NPlayers(g)

\* C18 as stated: a transfer is accepted only if the first non-out player
\* after the defender holds strictly more cards than the table will hold
\* with the transferred card
C18_TransferStrictlyMore ==
    \A u \in Users, c \in AllCards :
        LET r == Dispatch(game, Msg("transfer", u, c, NoIdx), 1)
        IN  r.outcome = "done" =>
                Held(P(game, FirstNotOutAfter(game, game.defender_idx)).hand)
                    > Len(game.table) + 1

\* C18, amended: a transfer is accepted only if the player of the seat
\* after the defender's holds at least as many cards as the table will
\* hold with the transferred card; otherwise it leaves the game unchanged
C18_TransferEnoughCards ==
    \A u \in Users, c \in AllCards :
        LET r == Dispatch(game, Msg("transfer", u, c, NoIdx), 1)
        IN  \/ NoDefender(game)
            \/ Held(P(game, SeatAfterDefender(game)).hand) >= Len(game.table) + 1
            \/ r.g = game /\ r.outcome # "done"

\* a defender who holds a card of the rank on the table, once in front of
\* a next player with exactly as many cards as the table would hold: the
\* transfer is accepted
C18_Witness ==
    /\ game.state = "playing"
    /\ NPlayers(game) = 3
    /\ game.table # <<>>
    /\ Held(P(game, SeatAfterDefender(game)).hand) = Len(game.table) + 1
    /\ \E c \in AllCards :
          Dispatch(game, Msg("transfer", P(game, game.defender_idx).uid, c, NoIdx), 1).outcome
              = "done"

\* the cards of the trump suit in a hand
Trumps(g, hand) == {c \in BagToSet(hand) : c.suit = g.trump_suit}

\* seat i holds a trump, and no seat holds a trump of lower rank
HoldsLowestTrump(g, i) ==
    \E c \in Trumps(g, P(g, i).hand) :
        \A j \in Seats(g) : \A t \in Trumps(g, P(g, j).hand) :
            rank_value(c.rank) <= rank_value(t.rank)

\* the cards seat i of n is dealt from a shuffled deck: one card in each of
\* the HandSize rounds, drawn from the end of the list
DealtRoundRobin(cards, n, i) ==
    LET rounds == {r \in 0 .. HandSize - 1 : r * n + i < Len(cards)}
    IN  [c \in {cards[Len(cards) - (r * n + i)] : r \in rounds} |-> 1]

\* C19: after start_game the attacker holds the lowest trump of all hands,
\* the defender is the next seat, turn_state is attack, the table is empty
\* and every player holds the HandSize cards dealt to the seat round-robin
C19_StartGame ==
    \A u \in Users :
        AllReady(set_ready(game, u)) =>
            LET h == Dispatch(game, Msg("ready", u, NoCard, NoIdx), 1).g
            IN  /\ HoldsLowestTrump(h, h.attacker_idx)
                /\ h.defender_idx = (h.attacker_idx + 1) % NPlayers(h)
                /\ h.turn_state = "attack"
                /\ h.table = <<>>
                /\ \A i \in Seats(h) :
                      /\ Held(P(h, i).hand) = HandSize
                      /\ P(h, i).hand = DealtRoundRobin(Shuffled(1), NPlayers(h), i)

(***************************************************************************)
(* The deal of start_game with the decks and the hands of the code.  The   *)
(* third specification starts in a room of 2 to MAX_PLAYERS seats whose    *)
(* settings hold a deck size, follows the ready messages of the seated     *)
(* users and stops at the deal.                                            *)
(***************************************************************************)
\* Deck.__init__: start_idx, chosen_ranks and the cards before the shuffle
StartIdx(size) ==
    IF size = 24 THEN rank_value("9")
    ELSE IF size = 36 THEN rank_value("6")
    ELSE 0

SizedRanks(size) == SubSeq(RANKS, StartIdx(size) + 1, Len(RANKS))

SizedCards(size) ==
    Concat([i \in 1 .. Len(SUITS) |->
              [j \in 1 .. Len(SizedRanks(size)) |-> Card(SizedRanks(size)[j], SUITS[i])]])

\* the outcomes of random.shuffle(self.cards) that are explored
SizedDeck(size, k) == Rotate(Piles(SizedCards(size), k + 1), 3 * k)

\* start_game with Deck(size = settings["size"]) and DEAL_ROUNDS rounds
start_game_sized(g, k) ==
    IF NPlayers(g) < 2 THEN g
    ELSE
      LET order == Concat([r \in 1 .. DEAL_ROUNDS |-> [i \in 1 .. NPlayers(g) |-> i]])
          d == Deal(g.players, SizedDeck(g.settings.size, k), order)
          tcard == IF d.cards # <<>> THEN d.cards[1] ELSE g.trump_card
          tsuit == IF d.cards # <<>> THEN d.cards[1].suit ELSE "H"
          starter == StarterIdx(d.players, tsuit)
      IN  [g EXCEPT !.deck = [none |-> FALSE, cards |-> d.cards],
                    !.players = d.players,
                    !.trump_card = tcard,
                    !.trump_suit = tsuit,
                    !.attacker_idx = starter,
                    !.defender_idx = (starter + 1) % NPlayers(g),
                    !.state = "playing",
                    !.turn_state = "attack",
                    !.table = <<>>]

\* the room of n seats after api_durak_create with a deck size and join_room
SizedRoom(mode, size, n) ==
    [JoinedRoom(mode, n) EXCEPT !.settings = [mode |-> mode, size |-> size]]

InitDeal ==
    \E mode \in Modes, size \in DECK_SIZES, n \in 2 .. MAX_PLAYERS :
        /\ game = SizedRoom(mode, size, n)
        /\ points = [u \in Users |-> IF u <= n THEN -JOIN_COST ELSE 0]
        /\ redealt = 0
        /\ ManagerInit

\* handle_message for a ready message in a room that was not dealt yet
ReadyMessage(uid, k) ==
    /\ game.state = "waiting"
    /\ game' = IF AllReady(set_ready(game, uid))
               THEN start_game_sized(set_ready(game, uid), k)
               ELSE set_ready(game, uid)
    /\ UNCHANGED <<points, redealt, mvars>>

NextDeal == \E uid \in 1 .. MAX_PLAYERS, k \in 1 .. DealShuffles : ReadyMessage(uid, k)

SpecDeal == InitDeal /\ [][NextDeal]_vars

\* C20: for the deck sizes 24, 36 and 52 and 2 to 4 seats the deal does not
\* exhaust the deck: after start_game trump_card is a card of the deck,
\* the first one left, and trump_suit is its suit
C20_TrumpFromDeck ==
    game.state = "playing" =>
        /\ game.deck.cards # <<>>
        /\ game.trump_card \in Range(SizedCards(game.settings.size))
        /\ game.trump_card = game.deck.cards[1]
        /\ game.trump_suit = game.trump_card.suit

(***************************************************************************)
(* DurakManager: the room registry.  A dict is a function whose domain is  *)
(* its set of keys.  A call of create_room or join_room is a coroutine: it *)
(* runs from one await to the next in one step, and between two steps of a *)
(* call any other coroutine may run.  points[u] is the balance of user u   *)
(* at the economy gateway.                                                 *)
(***************************************************************************)
Clients == 1 .. NumClients
RoomIds == 1 .. MaxRooms

\* d[k] = v
Put(d, k, v) == [x \in DOMAIN d \cup {k} |-> IF x = k THEN v ELSE d[x]]
\* del d[k]
Del(d, k) == [x \in DOMAIN d \ {k} |-> d[x]]

\* the uids of the players of a game, in seat order
Uids(g) == [i \in 1 .. NPlayers(g) |-> g.players[i].uid]

\* str(uuid.uuid4())[:8]: an id no room was registered under before
FreshRoomId ==
    CHOOSE r \in RoomIds \ DOMAIN connections : \A q \in RoomIds \ DOMAIN connections : r <= q

\* the coroutines in flight are a bag of calls: start and finish of one
Started(running, c) == running (+) SetToBag({c})
Finished(running, c) == running (-) SetToBag({c})
Moved(running, c, pc) == Started(Finished(running, c), [c EXCEPT !.pc = pc])
\* the call has come to a return statement: what is left of it is the
\* response of its route
Returned(running, c, result) ==
    Started(Finished(running, c), [c EXCEPT !.pc = "return", !.result = result])
InFlight(c) == c \in BagToSet(calls)

\* a balance check that lets every balance pass
LacksFunds_Never(bal) == FALSE

\* if bal < JOIN_COST
LacksFunds(bal) == bal < JOIN_COST

\* get_balance(uid), add_points(uid, delta)
get_balance(ledger, uid) == ledger[uid]
add_points(ledger, uid, delta) == [ledger EXCEPT ![uid] = @ + delta]

\* create_room is called: it awaits get_balance
CreateRoomCall(uid, mode) ==
    /\ BagCardinality(calls) < MaxCalls
    /\ calls' = Started(calls, [op |-> "create", uid |-> uid, room |-> 0, mode |-> mode,
                                pc |-> "get_balance", result |-> "-"])
    /\ UNCHANGED <<game, redealt, wins, points, rooms, connections, user_room_map,
                   timers, tasks, last_active, now, socks, casts>>

\* create_room from the balance to the await of add_points
CreateRoomBalance(c) ==
    /\ InFlight(c)
    /\ c.op = "create" /\ c.pc = "get_balance"
    /\ calls' = IF LacksFunds(get_balance(points, c.uid))
                THEN Returned(calls, c, "None")
                ELSE Moved(calls, c, "add_points")
    /\ UNCHANGED <<game, redealt, wins, points, rooms, connections, user_room_map,
                   timers, tasks, last_active, now, socks, casts>>

\* create_room from the debit to its return
CreateRoomRegister(c) ==
    /\ InFlight(c)
    /\ c.op = "create" /\ c.pc = "add_points"
    /\ DOMAIN connections # RoomIds
    /\ LET uid == c.uid
           room_id == FreshRoomId
       IN  /\ points' = add_points(points, uid, -JOIN_COST)
           /\ rooms' = Put(rooms, room_id, add_player(NewGame(c.mode), uid))
           /\ connections' = Put(connections, room_id, <<>>)
           /\ user_room_map' = Put(user_room_map, uid, room_id)
           /\ last_active' = Put(last_active, <<room_id, uid>>, now)
           /\ calls' = Started(Finished(calls, c),
                               [c EXCEPT !.pc = "return", !.result = "room_id",
                                         !.room = room_id])
    /\ UNCHANGED <<game, redealt, wins, timers, tasks, now, socks, casts>>

\* a join_room that does not return True for a seated user
join_room_begin_NoRejoin(reg, uid, room_id) ==
    IF room_id \notin DOMAIN reg THEN "False" ELSE "await"

\* join_room up to its first await: the result, or "await"
join_room_begin(reg, uid, room_id) ==
    IF room_id \notin DOMAIN reg THEN "False"
    ELSE IF Seated(reg[room_id], uid) THEN "True"
    ELSE "await"

\* join_room is called: it returns at once or awaits get_balance
JoinRoomCall(uid, room_id) ==
    /\ BagCardinality(calls) < MaxCalls
    /\ calls' = Started(calls,
                        IF join_room_begin(rooms, uid, room_id) = "await"
                        THEN [op |-> "join", uid |-> uid, room |-> room_id, mode |-> "-",
                              pc |-> "get_balance", result |-> "-"]
                        ELSE [op |-> "join", uid |-> uid, room |-> room_id, mode |-> "-",
                              pc |-> "return",
                              result |-> join_room_begin(rooms, uid, room_id)])
    /\ UNCHANGED <<game, redealt, wins, points, rooms, connections, user_room_map,
                   timers, tasks, last_active, now, socks, casts>>

\* join_room from the balance to the await of add_points: game is the object
\* fetched before the await; when the room was deleted since, it is a game
\* in waiting without players that the registry no longer holds, and
\* add_player seats the user in it
JoinRoomBalance(c) ==
    /\ InFlight(c)
    /\ c.op = "join" /\ c.pc = "get_balance"
    /\ LET uid == c.uid
           room_id == c.room
       IN  IF LacksFunds(get_balance(points, uid))
           THEN /\ calls' = Returned(calls, c, "False")
                /\ UNCHANGED <<rooms, last_active>>
           ELSE IF room_id \notin DOMAIN rooms
           THEN /\ calls' = Moved(calls, c, "add_points")
                /\ UNCHANGED <<rooms, last_active>>
           ELSE IF add_player(rooms[room_id], uid) = rooms[room_id]
           THEN /\ calls' = Returned(calls, c, "False")
                /\ UNCHANGED <<rooms, last_active>>
           ELSE /\ calls' = Moved(calls, c, "add_points")
                /\ rooms' = [rooms EXCEPT ![room_id] = add_player(@, uid)]
                /\ last_active' = Put(last_active, <<room_id, uid>>, now)
    /\ UNCHANGED <<game, redealt, wins, points, connections, user_room_map,
                   timers, tasks, now, socks, casts>>

\* a free slot for a broadcast
FreeCast == CHOOSE b \in 1 .. MaxCasts : b \notin DOMAIN casts /\ \A j \in 1 .. b - 1 : j \in DOMAIN casts

\* self.connections.get(room_id, [])
ConnectionsOf(conns, room_id) == IF room_id \in DOMAIN conns THEN conns[room_id] ELSE <<>>

\* broadcast_state up to its first send: with no room or no connection it
\* returns at once, otherwise it is suspended in the send to the first
\* connection; i counts the connections the loop has passed
broadcast_state(reg, conns, running, room_id, owner) ==
    IF room_id \notin DOMAIN reg \/ ConnectionsOf(conns, room_id) = <<>>
    THEN running
    ELSE Put(running, FreeCast,
             [room |-> room_id, i |-> 0, to |-> conns[room_id][1],
              payload |-> [for |-> conns[room_id][1][2],
                           payload |-> get_snapshot(reg[room_id], conns[room_id][1][2])],
              dead |-> <<>>, got |-> {}, owner |-> owner, thrown |-> FALSE])

\* who awaits a broadcast: the route of a WebSocket in handle_message, a
\* join_room call or the supervisor of the room
Route(ws) == [kind |-> "route", ws |-> ws]
JoinCall == [kind |-> "join", ws |-> 0]
Supervisor == [kind |-> "supervisor", ws |-> 0]

\* join_room from the debit to the first send of its broadcast_state, after
\* which it returns True
JoinRoomRecord(c) ==
    /\ InFlight(c)
    /\ c.op = "join" /\ c.pc = "add_points"
    /\ points' = add_points(points, c.uid, -JOIN_COST)
    /\ user_room_map' = Put(user_room_map, c.uid, c.room)
    /\ calls' = Returned(calls, c, "True")
    /\ Cardinality(DOMAIN casts) < MaxCasts
    /\ casts' = broadcast_state(rooms, connections, casts, c.room, JoinCall)
    /\ UNCHANGED <<game, redealt, wins, rooms, connections, timers, tasks,
                   last_active, now, socks>>

\* api_durak_create, api_durak_join: the response to a call that returned
Respond(c) ==
    /\ InFlight(c)
    /\ c.pc = "return"
    /\ calls' = Finished(calls, c)
    /\ UNCHANGED <<game, redealt, wins, points, rooms, connections, user_room_map,
                   timers, tasks, last_active, now, socks, casts>>

\* task.cancel(): a supervisor that is suspended in a send of its broadcast
\* gets the CancelledError there, where the bare except takes it for a
\* failed send, and runs on; a supervisor that sleeps ends
Cancelled(running, room_id) ==
    [b \in DOMAIN running |->
        IF running[b].room = room_id /\ running[b].owner = Supervisor
        THEN [running[b] EXCEPT !.thrown = TRUE] ELSE running[b]]
Broadcasting(running, room_id) ==
    \E b \in DOMAIN running : running[b].room = room_id /\ running[b].owner = Supervisor

\* handle_message(room_id, uid, {"action": "ready"}): set_ready, and when all
\* are ready the timer is cancelled and the game started; then broadcast_state
RoomReady(ws, room_id, uid, k) ==
    /\ room_id \in DOMAIN rooms
    /\ Cardinality(DOMAIN casts) < MaxCasts
    /\ LET g == rooms[room_id]
           start == AllReady(set_ready(g, uid))
           cancel == start /\ room_id \in timers
           reg == [rooms EXCEPT ![room_id] = handle_ready(g, uid, k).g]
           running == IF cancel THEN Cancelled(casts, room_id) ELSE casts
       IN  /\ rooms' = reg
           /\ last_active' = IF Seated(g, uid)
                              THEN Put(last_active, <<room_id, uid>>, now)
                              ELSE last_active
           /\ timers' = IF cancel THEN timers \ {room_id} ELSE timers
           /\ tasks' = IF cancel /\ ~Broadcasting(casts, room_id)
                        THEN tasks \ {room_id} ELSE tasks
           /\ casts' = broadcast_state(reg, connections, running, room_id, Route(ws))
    /\ UNCHANGED <<game, redealt, wins, points, connections, user_room_map, now,
                   calls, socks>>

(***************************************************************************)
(* The registry under create_room and join_room calls of NumClients users  *)
(* that interleave at their awaits.  User 1 can pay for two seats, every   *)
(* other user for one.                                                     *)
(***************************************************************************)
StartBalance(u) == IF u = 1 THEN 2 * JOIN_COST ELSE JOIN_COST

InitRooms ==
    /\ game = NewGame("podkidnoy")
    /\ points = [u \in Clients |-> StartBalance(u)]
    /\ redealt = 0
    /\ ManagerInit

\* the users make their first call in the order of their ids: user v has
\* arrived when a call of v is in flight or v has paid for a seat
Arrived(v) == points[v] < StartBalance(v) \/ \E c \in BagToSet(calls) : c.uid = v
InTurn(uid) == \A v \in 1 .. uid - 1 : Arrived(v)

\* the users that call create_room
Creators == 1 .. MaxRooms

\* no await lies between the return of a call and the response of its
\* route: no other coroutine runs between the two
Responding == \E c \in BagToSet(calls) : c.pc = "return"

NextRooms ==
    \/ \E uid \in Creators : ~Responding /\ InTurn(uid) /\ CreateRoomCall(uid, "podkidnoy")
    \/ \E c \in BagToSet(calls) : ~Responding /\ CreateRoomBalance(c)
    \/ \E c \in BagToSet(calls) : ~Responding /\ CreateRoomRegister(c)
    \/ \E uid \in Clients, room_id \in RoomIds :
          ~Responding /\ InTurn(uid) /\ JoinRoomCall(uid, room_id)
    \/ \E c \in BagToSet(calls) : ~Responding /\ JoinRoomBalance(c)
    \/ \E c \in BagToSet(calls) : ~Responding /\ JoinRoomRecord(c)
    \/ \E c \in BagToSet(calls) : Respond(c)

SpecRooms == InitRooms /\ [][NextRooms]_vars

(***************************************************************************)
(* DurakManager: connections, broadcasts and the ready-timeout supervisor. *)
(* socks[ws] is the WebSocket ws with the route that serves it: its room   *)
(* and uid, whether the client still holds it open, where the route is,    *)
(* and the payload the client received last.  A broadcast is suspended in  *)
(* each of its sends; tasks holds the room ids whose supervisor is alive.  *)
(***************************************************************************)
\* the tuple that connect_auth appends to a connection list, and a WebSocket
\* by itself, which is what connect appends and disconnect looks for
Pair(ws, uid) == <<ws, uid>>
Bare(ws) == <<ws>>

\* item in list
Holds(list, item) == \E i \in 1 .. Len(list) : list[i] = item

\* list.remove(item) for an item in the list
RemoveFirst(list, item) ==
    LET i == CHOOSE j \in 1 .. Len(list) :
                 list[j] = item /\ \A k \in 1 .. j - 1 : list[k] # item
    IN  SubSeq(list, 1, i - 1) \o SubSeq(list, i + 1, Len(list))

\* for item in dead_ws: if item in tuples: tuples.remove(item)
RECURSIVE Pruned(_, _)
Pruned(list, dead_ws) ==
    IF dead_ws = <<>> THEN list
    ELSE Pruned(IF Holds(list, Head(dead_ws)) THEN RemoveFirst(list, Head(dead_ws)) ELSE list,
                Tail(dead_ws))

\* disconnect(websocket, room_id, uid)
disconnect(conns, websocket, room_id) ==
    IF room_id \in DOMAIN conns /\ Holds(conns[room_id], Bare(websocket))
    THEN [conns EXCEPT ![room_id] = RemoveFirst(@, Bare(websocket))]
    ELSE conns

\* remove_player
remove_player(g, uid) ==
    LET left == SelectSeq(g.players, LAMBDA p : p.uid # uid)
    IN  [g EXCEPT !.players = left,
                  !.state = IF g.state = "playing" /\ Len(left) < 2 THEN "aborted" ELSE @]

\* the game that rooms.get(room_id) gave to a coroutine before the room was
\* deleted: a game in waiting without players
GameOf(reg, room_id) ==
    IF room_id \in DOMAIN reg THEN reg[room_id] ELSE NewGame("podkidnoy")

\* {"type": "state", "payload": game.get_snapshot(uid)}
StatePayload(g, uid) == [for |-> uid, payload |-> get_snapshot(g, uid)]

\* a WebSocket that was not opened before
FreshSock == CHOOSE ws \in 1 .. MaxSocks : ws \notin DOMAIN socks /\ \A v \in 1 .. ws - 1 : v \in DOMAIN socks

\* ws_durak up to receive_json, that is connect_auth: accept, append the
\* tuple, send the state to the new connection and start the supervisor of a
\* room in waiting that has none
ConnectAuth(room_id, uid) ==
    /\ DOMAIN socks # 1 .. MaxSocks
    /\ LET ws == FreshSock
       IN  /\ connections' = Put(connections, room_id,
                                 Append(ConnectionsOf(connections, room_id), Pair(ws, uid)))
           /\ socks' = Put(socks, ws,
                           [room |-> room_id, uid |-> uid, open |-> TRUE, pc |-> "receive",
                            seen |-> IF room_id \in DOMAIN rooms
                                     THEN <<StatePayload(rooms[room_id], uid)>> ELSE <<>>])
    /\ LET start == /\ room_id \in DOMAIN rooms
                    /\ rooms[room_id].state = "waiting"
                    /\ room_id \notin timers
       IN  /\ timers' = IF start THEN timers \cup {room_id} ELSE timers
           /\ tasks' = IF start THEN tasks \cup {room_id} ELSE tasks
    /\ UNCHANGED <<game, redealt, wins, points, rooms, user_room_map, last_active, now,
                   calls, casts>>

\* the client closes its WebSocket
SockCloses(ws) ==
    /\ ws \in DOMAIN socks
    /\ socks[ws].open
    /\ socks' = [socks EXCEPT ![ws].open = FALSE]
    /\ UNCHANGED <<game, redealt, wins, points, rooms, connections, user_room_map, timers,
                   tasks, last_active, now, calls, casts>>

\* the route of ws is in receive_json, not in handle_message
Receiving(ws) ==
    /\ ws \in DOMAIN socks
    /\ socks[ws].pc = "receive"
    /\ \A b \in DOMAIN casts : casts[b].owner # Route(ws)
    /\ \A s \in DOMAIN wins : wins[s].owner # Route(ws)

\* ws_durak: receive_json raises WebSocketDisconnect and the route calls
\* disconnect
RouteDisconnect(ws) ==
    /\ Receiving(ws)
    /\ ~socks[ws].open
    /\ connections' = disconnect(connections, ws, socks[ws].room)
    /\ socks' = [socks EXCEPT ![ws].pc = "done"]
    /\ UNCHANGED <<game, redealt, wins, points, rooms, user_room_map, timers, tasks,
                   last_active, now, calls, casts>>

\* ws_durak: a ready message arrives on ws
ReadyFrom(ws, k) ==
    /\ Receiving(ws)
    /\ socks[ws].open
    /\ RoomReady(ws, socks[ws].room, socks[ws].uid, k)

\* time.time() advances
Tick ==
    /\ now + TickStep <= MaxTime
    /\ now' = now + TickStep
    /\ UNCHANGED <<game, redealt, wins, points, rooms, connections, user_room_map, timers,
                   tasks, last_active, calls, socks, casts>>

\* a supervisor that also kicks after exactly READY_TIMEOUT seconds
Idle_AtLimit(p, seen_at, t) == ~p.is_ready /\ t - seen_at >= READY_TIMEOUT

\* not p.is_ready and (now - p.last_active > READY_TIMEOUT)
Idle(p, seen_at, t) == ~p.is_ready /\ t - seen_at > READY_TIMEOUT

\* to_remove: the uids of the players that are not ready and were not active
\* for more than READY_TIMEOUT seconds, in seat order
RECURSIVE to_remove(_, _, _, _)
to_remove(players, room_id, active, t) ==
    IF players = <<>> THEN <<>>
    ELSE LET p == Head(players)
             rest == to_remove(Tail(players), room_id, active, t)
         IN  IF Idle(p, active[<<room_id, p.uid>>], t)
             THEN <<p.uid>> \o rest ELSE rest

\* for uid in to_remove: game.remove_player(uid)
RECURSIVE Kicked(_, _)
Kicked(g, uids) ==
    IF uids = <<>> THEN g ELSE Kicked(remove_player(g, Head(uids)), Tail(uids))

\* check_ready_timeout when it wakes from its sleep: it ends when the room is
\* gone or not in waiting; otherwise it removes the idle players, deletes a
\* room without players and ends, or broadcasts when it removed someone and
\* sleeps again
SupervisorCheck(room_id) ==
    /\ room_id \in tasks
    /\ ~Broadcasting(casts, room_id)
    /\ Cardinality(DOMAIN casts) < MaxCasts
    /\ IF room_id \notin DOMAIN rooms \/ GameOf(rooms, room_id).state # "waiting"
       THEN /\ tasks' = tasks \ {room_id}
            /\ UNCHANGED <<rooms, last_active, casts>>
       ELSE LET uids == to_remove(rooms[room_id].players, room_id, last_active, now)
                g == Kicked(rooms[room_id], uids)
                reg == [rooms EXCEPT ![room_id] = g]
            IN  /\ last_active' = [k \in {q \in DOMAIN last_active :
                                            q[1] # room_id \/ Seated(g, q[2])}
                                    |-> last_active[k]]
                /\ IF g.players = <<>>
                   THEN /\ rooms' = Del(rooms, room_id)
                        /\ tasks' = tasks \ {room_id}
                        /\ UNCHANGED casts
                   ELSE /\ rooms' = reg
                        /\ UNCHANGED tasks
                        /\ casts' = IF uids # <<>>
                                    THEN broadcast_state(reg, connections, casts, room_id,
                                                         Supervisor)
                                    ELSE casts
    /\ UNCHANGED <<game, redealt, wins, points, connections, user_room_map, timers, now,
                   calls, socks>>

\* broadcast_state: the send it is suspended in ends, with the payload
\* delivered or with an exception; the loop goes on to the next tuple of the
\* list as the list is now, or ends and the dead tuples are removed
CastStep(b) ==
    /\ b \in DOMAIN casts
    /\ LET c == casts[b]
           list == ConnectionsOf(connections, c.room)
           item == c.to
           sent == socks[item[1]].open /\ ~c.thrown
           dead_ws == IF sent THEN c.dead ELSE Append(c.dead, item)
           got == IF sent THEN c.got \cup {item} ELSE c.got
       IN  /\ socks' = IF sent THEN [socks EXCEPT ![item[1]].seen = <<c.payload>>] ELSE socks
           /\ IF c.i + 1 < Len(list)
              THEN /\ casts' = [casts EXCEPT ![b] =
                                  [c EXCEPT !.i = c.i + 1,
                                            !.to = list[c.i + 2],
                                            !.payload = StatePayload(GameOf(rooms, c.room),
                                                                     list[c.i + 2][2]),
                                            !.dead = dead_ws,
                                            !.got = got,
                                            !.thrown = FALSE]]
                   /\ UNCHANGED connections
              ELSE /\ casts' = Del(casts, b)
                   /\ connections' = IF c.room \in DOMAIN connections
                                     THEN [connections EXCEPT ![c.room] = Pruned(@, dead_ws)]
                                     ELSE connections
    /\ UNCHANGED <<game, redealt, wins, points, rooms, user_room_map, timers, tasks,
                   last_active, now, calls>>

(***************************************************************************)
(* One room from its creation by user 1 at time 0: the users join in the   *)
(* order of their ids, open WebSockets to the room, send ready, close      *)
(* their WebSockets, while time passes and the supervisor runs.            *)
(***************************************************************************)
InitLobby ==
    /\ game = NewGame("podkidnoy")
    /\ points = [u \in Clients |-> IF u = 1 THEN StartBalance(u) - JOIN_COST
                                   ELSE StartBalance(u)]
    /\ redealt = 0
    /\ rooms = Put(EmptyDict, 1, add_player(NewGame("podkidnoy"), 1))
    /\ connections = Put(EmptyDict, 1, <<>>)
    /\ user_room_map = Put(EmptyDict, 1, 1)
    /\ timers = {}
    /\ tasks = {}
    /\ last_active = Put(EmptyDict, <<1, 1>>, 0)
    /\ now = 0
    /\ calls = EmptyBag
    /\ socks = EmptyDict
    /\ casts = EmptyDict
    /\ wins = EmptyDict

\* what is explored: one join_room call at a time; a user opens one
\* WebSocket, after it was seated; a ready message finds the room in
\* waiting; the sends of a broadcast end before another coroutine runs,
\* except that a ready message is handled during a broadcast of the
\* supervisor
Connected(uid) == \E ws \in DOMAIN socks : socks[ws].uid = uid
Calm == ~Responding /\ casts = EmptyDict
Waiting(room_id) == room_id \in DOMAIN rooms /\ rooms[room_id].state = "waiting"

NextLobby ==
    \/ \E uid \in Users : Calm /\ calls = EmptyBag /\ InTurn(uid) /\ JoinRoomCall(uid, 1)
    \/ \E c \in BagToSet(calls) : Calm /\ JoinRoomBalance(c)
    \/ \E c \in BagToSet(calls) : Calm /\ JoinRoomRecord(c)
    \/ \E c \in BagToSet(calls) : Respond(c)
    \/ \E uid \in Users :
          Calm /\ ~Connected(uid) /\ Seated(GameOf(rooms, 1), uid) /\ ConnectAuth(1, uid)
    \/ \E ws \in 1 .. MaxSocks :
          /\ ~Responding
          /\ \A b \in DOMAIN casts : casts[b].owner = Supervisor
          /\ Waiting(1)
          /\ ReadyFrom(ws, 1)
    \/ Calm /\ Tick
    \/ Calm /\ SupervisorCheck(1)
    \/ \E b \in 1 .. MaxCasts : ~Responding /\ CastStep(b)

SpecLobby == InitLobby /\ [][NextLobby]_vars

(***************************************************************************)
(* One room in waiting with users 1 and 2 seated: WebSockets are opened    *)
(* and closed, ready messages arrive, and the broadcasts that follow them  *)
(* interleave at their sends.                                              *)
(***************************************************************************)
InitConn ==
    /\ game = NewGame("podkidnoy")
    /\ points = [u \in Clients |-> IF u <= 2 THEN StartBalance(u) - JOIN_COST
                                   ELSE StartBalance(u)]
    /\ redealt = 0
    /\ rooms = Put(EmptyDict, 1, add_player(add_player(NewGame("podkidnoy"), 1), 2))
    /\ connections = Put(EmptyDict, 1, <<>>)
    /\ user_room_map = Put(Put(EmptyDict, 1, 1), 2, 1)
    /\ timers = {}
    /\ tasks = {}
    /\ last_active = Put(Put(EmptyDict, <<1, 1>>, 0), <<1, 2>>, 0)
    /\ now = 0
    /\ calls = EmptyBag
    /\ socks = EmptyDict
    /\ casts = EmptyDict
    /\ wins = EmptyDict

NextConn ==
    \/ \E uid \in Users : Seated(GameOf(rooms, 1), uid) /\ ConnectAuth(1, uid)
    \/ \E ws \in 1 .. MaxSocks : SockCloses(ws)
    \/ \E ws \in 1 .. MaxSocks : RouteDisconnect(ws)
    \/ \E ws \in 1 .. MaxSocks : Waiting(1) /\ ReadyFrom(ws, 1)
    \/ \E b \in 1 .. MaxCasts : CastStep(b)

SpecConn == InitConn /\ [][NextConn]_vars

(***************************************************************************)
(* One room played over two WebSockets.  Users 1 and 2 are seated in room  *)
(* 1, in waiting, and each holds a WebSocket to it; the supervisor that    *)
(* connect_auth started is asleep.  The routes of the two WebSockets       *)
(* handle the messages of their users; a handle_message runs without an    *)
(* await up to process_win or broadcast_state, where it is suspended in    *)
(* every add_points and in every send, and there the other route or the    *)
(* supervisor runs.                                                        *)
(***************************************************************************)
\* a free slot for a process_win call
FreeWin == CHOOSE s \in 1 .. MaxWins : s \notin DOMAIN wins /\ \A j \in 1 .. s - 1 : j \in DOMAIN wins

\* process_win: the uids it credits, in seat order; nobody joins or leaves
\* a room that is not in waiting, so the list does not change while
\* process_win goes through it
Credited(g) ==
    LET active == ActiveIdx(g.players)
        loser_uid == IF Cardinality(active) = 1
                     THEN P(g, CHOOSE i \in active : TRUE).uid ELSE 0
    IN  SelectSeq(Uids(g), LAMBDA u : u # loser_uid)

\* handle_message for an action other than ready, up to its first await:
\* the engine call; an exception leaves handle_message and ws_durak, which
\* ends the route and closes its WebSocket; with the game finished
\* process_win is called and suspended in its first add_points; otherwise
\* broadcast_state is called
PlayFrom(ws, m) ==
    /\ Receiving(ws)
    /\ socks[ws].open
    /\ m.uid = socks[ws].uid
    /\ m.action # "ready"
    /\ socks[ws].room \in DOMAIN rooms
    /\ Cardinality(DOMAIN casts) < MaxCasts
    /\ Cardinality(DOMAIN wins) < MaxWins
    /\ LET room_id == socks[ws].room
           r == Dispatch(rooms[room_id], m, 1)
           reg == [rooms EXCEPT ![room_id] = r.g]
       IN  /\ rooms' = reg
           /\ IF r.outcome = "raised"
              THEN /\ socks' = [socks EXCEPT ![ws].pc = "done", ![ws].open = FALSE]
                   /\ UNCHANGED <<casts, wins>>
              ELSE IF r.g.state = "finished" /\ Credited(r.g) # <<>>
              THEN /\ wins' = Put(wins, FreeWin,
                                  [room |-> room_id, owner |-> Route(ws),
                                   todo |-> Credited(r.g)])
                   /\ UNCHANGED <<socks, casts>>
              ELSE /\ casts' = broadcast_state(reg, connections, casts, room_id, Route(ws))
                   /\ UNCHANGED <<socks, wins>>
    /\ UNCHANGED <<game, redealt, points, connections, user_room_map, timers, tasks,
                   last_active, now, calls>>

\* process_win: the add_points it is suspended in returns; it goes on to
\* the next player, or returns to handle_message, which calls
\* broadcast_state
WinStep(s) ==
    /\ s \in DOMAIN wins
    /\ points' = add_points(points, Head(wins[s].todo), WIN_REWARD)
    /\ IF Tail(wins[s].todo) # <<>>
       THEN /\ wins' = [wins EXCEPT ![s].todo = Tail(@)]
            /\ UNCHANGED casts
       ELSE /\ wins' = Del(wins, s)
            /\ Cardinality(DOMAIN casts) < MaxCasts
            /\ casts' = broadcast_state(rooms, connections, casts, wins[s].room,
                                        wins[s].owner)
    /\ UNCHANGED <<game, redealt, rooms, connections, user_room_map, timers, tasks,
                   last_active, now, calls, socks>>

InitPlay ==
    /\ game = NewGame("podkidnoy")
    /\ points = [u \in Clients |-> IF u <= 2 THEN StartBalance(u) - JOIN_COST
                                   ELSE StartBalance(u)]
    /\ redealt = 0
    /\ rooms = Put(EmptyDict, 1, add_player(add_player(NewGame("perevodnoy"), 1), 2))
    /\ socks = [ws \in {1, 2} |->
                  [room |-> 1, uid |-> ws, open |-> TRUE, pc |-> "receive",
                   seen |-> <<StatePayload(
                                 add_player(add_player(NewGame("perevodnoy"), 1), 2), ws)>>]]
    /\ connections = Put(EmptyDict, 1, <<Pair(1, 1), Pair(2, 2)>>)
    /\ user_room_map = Put(Put(EmptyDict, 1, 1), 2, 1)
    /\ timers = {1}
    /\ tasks = {1}
    /\ last_active = Put(Put(EmptyDict, <<1, 1>>, 0), <<1, 2>>, 0)
    /\ now = 0
    /\ calls = EmptyBag
    /\ casts = EmptyDict
    /\ wins = EmptyDict

\* what is explored: the ready messages that find the room in waiting; the
\* clock while the room is in waiting and no broadcast is in flight; of the
\* other messages of a user, those with a card of its hand or a pair of the
\* table that the engine does not reject, and a pass once the game is
\* finished; MaxSettle payouts
Paid == MaxOf({(points[u] - StartBalance(u) + JOIN_COST) \div WIN_REWARD : u \in {1, 2}})
Moves(g, u) ==
    LET idx == PIdx(g, u)
        held == IF idx = -1 THEN {} ELSE BagToSet(P(g, idx).hand)
        all == {Msg("take", u, NoCard, NoIdx)}
               \cup {Msg(a, u, c, NoIdx) : a \in {"attack", "transfer"}, c \in held}
               \cup {Msg("defend", u, c, i) : c \in held, i \in 0 .. Len(g.table) - 1}
    IN  {Msg("pass", u, NoCard, NoIdx) : x \in {s \in {g.state} : s = "finished"}}
        \cup {m \in all : Dispatch(g, m, 1) # Return(g)}

NextPlay ==
    \/ \E ws \in 1 .. MaxSocks : Waiting(1) /\ ReadyFrom(ws, 1)
    \/ \E ws \in DOMAIN socks :
          \E m \in Moves(GameOf(rooms, 1), socks[ws].uid) :
              Paid + Cardinality(DOMAIN wins) < MaxSettle /\ PlayFrom(ws, m)
    \/ \E s \in 1 .. MaxWins : WinStep(s)
    \/ \E b \in 1 .. MaxCasts : CastStep(b)
    \/ Waiting(1) /\ casts = EmptyDict /\ Tick
    \/ SupervisorCheck(1)

SpecPlay == InitPlay /\ [][NextPlay]_vars

(***************************************************************************)
(* Claims on create_room and join_room.  A step starts a call, moves one   *)
(* call from an await to its next await or to its return, or responds.     *)
(***************************************************************************)
\* the step starts call c
Starts(c) ==
    /\ BagCardinality(calls') = BagCardinality(calls) + 1
    /\ calls' = Started(calls, c)
\* the step is a step of the call c in flight, which c leaves as d
Becomes(c, d) ==
    /\ InFlight(c) /\ c.pc # "return" /\ d # c
    /\ calls' = Started(Finished(calls, c), d)
\* the step of call c ends in a return of result
Returns(c, result) == Becomes(c, [c EXCEPT !.pc = "return", !.result = result])
\* the step of call c ends in the await of add_points
GoesOn(c) == Becomes(c, [c EXCEPT !.pc = "add_points"])
\* the step is the response to call c
Responds(c) == InFlight(c) /\ c.pc = "return" /\ calls' = Finished(calls, c)
ActsOn(c) == \E d \in BagToSet(calls') : Becomes(c, d)

\* the step leaves balances, rooms, connections and active rooms as they are
Untouched == UNCHANGED <<points, rooms, connections, user_room_map>>

\* room_id is registered by the step, for uid alone, and nothing else changes
\* in the registry
Registers(room_id, uid) ==
    /\ room_id \notin DOMAIN rooms
    /\ room_id \in DOMAIN rooms'
    /\ rooms' = Put(rooms, room_id, rooms'[room_id])
    /\ rooms'[room_id].state = "waiting"
    /\ Uids(rooms'[room_id]) = <<uid>>
    /\ connections' = Put(connections, room_id, <<>>)
    /\ user_room_map' = Put(user_room_map, uid, room_id)

\* the step debits amount from uid and from no one else
Debits(uid, amount) == points' = [points EXCEPT ![uid] = @ - amount]

\* C21: create_room with a balance below JOIN_COST returns None without a
\* room, a registration or a debit; with a balance of JOIN_COST or more it
\* goes on, debits JOIN_COST from the caller once and registers a new room in
\* waiting whose only player is the caller, with an empty connection list and
\* the caller's active room recorded, and returns the id of that room
C21_CreateRoom ==
    [][\A c \in BagToSet(calls) :
         /\ (c.op = "create" /\ c.pc = "get_balance" /\ ActsOn(c))
            => /\ Untouched
               /\ IF points[c.uid] < JOIN_COST THEN Returns(c, "None") ELSE GoesOn(c)
         /\ (c.op = "create" /\ c.pc = "add_points" /\ ActsOn(c))
            => /\ Debits(c.uid, JOIN_COST)
               /\ \E room_id \in RoomIds :
                    /\ Registers(room_id, c.uid)
                    /\ Becomes(c, [c EXCEPT !.pc = "return", !.result = "room_id",
                                            !.room = room_id])
         /\ (c.op = "create" /\ Responds(c)) => Untouched]_vars

\* a room as create_room left it, its creator debited, and a create_room of
\* a user without JOIN_COST points at its balance check
C21_Witness ==
    /\ \E room_id \in DOMAIN rooms, uid \in DOMAIN user_room_map :
         /\ user_room_map[uid] = room_id
         /\ Uids(rooms[room_id]) = <<uid>>
         /\ connections[room_id] = <<>>
         /\ points[uid] = StartBalance(uid) - JOIN_COST
    /\ \E c \in BagToSet(calls) :
         c.op = "create" /\ c.pc = "get_balance" /\ points[c.uid] < JOIN_COST

\* C22: a join_room of a user that is seated in the room, whatever the state
\* of the room and the balance of the user, returns True at once; neither
\* the call nor the response to it changes a balance, a seat list or a game
C22_Rejoin ==
    [][/\ \A c \in BagToSet(calls') :
            (/\ Starts(c) /\ c.op = "join"
             /\ c.room \in DOMAIN rooms
             /\ Seated(rooms[c.room], c.uid))
            => c.pc = "return" /\ c.result = "True" /\ Untouched
       /\ \A c \in BagToSet(calls) :
            (c.op = "join" /\ Responds(c)) => Untouched]_vars

\* a join_room of a seated user without JOIN_COST points to a started room
\* has returned True
C22_Witness ==
    \E c \in BagToSet(calls) :
        /\ c.op = "join" /\ c.pc = "return" /\ c.result = "True"
        /\ c.room \in DOMAIN rooms
        /\ rooms[c.room].state = "playing"
        /\ points[c.uid] < JOIN_COST

\* what lets the join_room call c fail when it comes back from get_balance
JoinFails(c) ==
    \/ points[c.uid] < JOIN_COST
    \/ c.room \notin DOMAIN rooms
    \/ /\ c.room \in DOMAIN rooms
       /\ \/ rooms[c.room].state # "waiting"
          \/ NPlayers(rooms[c.room]) >= MAX_PLAYERS
          \/ Seated(rooms[c.room], c.uid)

\* the step appends the seat of uid to room_id and leaves the rest of the
\* registry as it is
Seats1(room_id, uid) ==
    /\ rooms' = [rooms EXCEPT ![room_id].players = Append(@, Player(uid))]
    /\ UNCHANGED <<points, connections, user_room_map>>

\* C23: a join_room of a user that is not seated in the room returns False
\* without a debit and without a change of any room when the room is
\* unknown, not in waiting or has MAX_PLAYERS players, or the balance is
\* below JOIN_COST; otherwise it appends the seat of the user, goes on to
\* add_points, debits JOIN_COST from the user once and returns True; it
\* debits in no other case
C23_JoinDebit ==
    [][/\ \A c \in BagToSet(calls') :
            (/\ Starts(c) /\ c.op = "join"
             /\ ~(c.room \in DOMAIN rooms /\ Seated(rooms[c.room], c.uid)))
            => /\ Untouched
               /\ IF c.room \notin DOMAIN rooms
                  THEN c.pc = "return" /\ c.result = "False"
                  ELSE c.pc = "get_balance"
       /\ \A c \in BagToSet(calls) :
            /\ (c.op = "join" /\ c.pc = "get_balance" /\ ActsOn(c))
               => IF JoinFails(c)
                  THEN Returns(c, "False") /\ Untouched
                  ELSE GoesOn(c) /\ Seats1(c.room, c.uid)
            /\ (c.op = "join" /\ c.pc = "add_points" /\ ActsOn(c))
               => /\ Returns(c, "True")
                  /\ Debits(c.uid, JOIN_COST)
                  /\ UNCHANGED <<rooms, connections>>]_vars

\* C24: no user is seated in two registered rooms at once, and the active
\* room recorded for a user is a registered room in which the user is seated
C24_OneActiveRoom ==
    /\ \A uid \in Clients, r1 \in DOMAIN rooms, r2 \in DOMAIN rooms :
         Seated(rooms[r1], uid) /\ Seated(rooms[r2], uid) => r1 = r2
    /\ \A uid \in DOMAIN user_room_map :
         /\ user_room_map[uid] \in DOMAIN rooms
         /\ Seated(rooms[user_room_map[uid]], uid)

\* the uids of the players of g are pairwise distinct
DistinctUids(g) ==
    \A i \in Seats(g), j \in Seats(g) : P(g, i).uid = P(g, j).uid => i = j

\* C25: every registered room has at most MAX_PLAYERS players, with pairwise
\* distinct uids, also while join_room calls for it interleave; add_player
\* leaves a game as it is when it is full, holds the uid or is not in waiting
C25_SeatsBounded ==
    \A room_id \in DOMAIN rooms :
        /\ NPlayers(rooms[room_id]) <= MAX_PLAYERS
        /\ DistinctUids(rooms[room_id])
        /\ \A uid \in Clients :
             (\/ NPlayers(rooms[room_id]) >= MAX_PLAYERS
              \/ Seated(rooms[room_id], uid)
              \/ rooms[room_id].state # "waiting")
             => add_player(rooms[room_id], uid) = rooms[room_id]

\* two join_room calls for the last seat of a room await get_balance
C25_Witness ==
    \E c1 \in BagToSet(calls), c2 \in BagToSet(calls) :
        /\ c1.op = "join" /\ c1.pc = "get_balance"
        /\ c2.op = "join" /\ c2.pc = "get_balance"
        /\ c1.room = c2.room
        /\ c1 # c2 \/ CopiesIn(c1, calls) = 2
        /\ c1.room \in DOMAIN rooms
        /\ rooms[c1.room].state = "waiting"
        /\ NPlayers(rooms[c1.room]) = MAX_PLAYERS - 1
        /\ points[c1.uid] >= JOIN_COST /\ points[c2.uid] >= JOIN_COST

(***************************************************************************)
(* Claims on the ready messages and the ready-timeout supervisor.          *)
(***************************************************************************)
\* C26: no registered room is in waiting with 2 or more players who are all
\* ready: the step that made the last of them ready, or removed the last
\* player who was not, has started the game
C26_StartsWhenReady ==
    \A room_id \in DOMAIN rooms :
        ~(rooms[room_id].state = "waiting" /\ AllReady(rooms[room_id]))

\* the step takes the seat of uid in room_id away
Unseats(room_id, uid) ==
    /\ Seated(rooms[room_id], uid)
    /\ room_id \in DOMAIN rooms' => ~Seated(rooms'[room_id], uid)

\* C27: a step takes a player out of a room only if the room is in waiting
\* and the player is not ready and was last active more than READY_TIMEOUT
\* seconds ago; a room that loses all its players is deleted from the
\* registry, and no other room is
C27_KicksOnlyIdle ==
    [][\A room_id \in DOMAIN rooms :
         /\ \A i \in Seats(rooms[room_id]) :
              Unseats(room_id, P(rooms[room_id], i).uid)
              => /\ rooms[room_id].state = "waiting"
                 /\ ~P(rooms[room_id], i).is_ready
                 /\ now - last_active[<<room_id, P(rooms[room_id], i).uid>>] > READY_TIMEOUT
         /\ room_id \in DOMAIN rooms'
            <=> \E i \in Seats(rooms[room_id]) :
                   ~Unseats(room_id, P(rooms[room_id], i).uid)]_vars

\* the supervisor has removed a player from a room and left a ready player
\* that was not active for more than READY_TIMEOUT seconds
C27_Witness ==
    \E room_id \in DOMAIN rooms :
        /\ \E uid \in DOMAIN user_room_map :
             user_room_map[uid] = room_id /\ ~Seated(rooms[room_id], uid)
        /\ \E i \in Seats(rooms[room_id]) :
             /\ P(rooms[room_id], i).is_ready
             /\ now - last_active[<<room_id, P(rooms[room_id], i).uid>>] > READY_TIMEOUT

\* C28: for a room id whose room is not registered or not in waiting, the
\* timers registry has no entry and no supervisor task is alive
C28_NoStaleSupervisor ==
    \A room_id \in RoomIds :
        (room_id \notin DOMAIN rooms \/ GameOf(rooms, room_id).state # "waiting")
        => room_id \notin timers /\ room_id \notin tasks

(***************************************************************************)
(* Claims on connections and broadcasts.                                   *)
(***************************************************************************)
\* the step is the call of disconnect by the route of ws
Disconnects(ws) ==
    /\ ws \in DOMAIN socks
    /\ socks[ws].pc = "receive"
    /\ socks'[ws].pc = "done"

\* C29: the disconnect of a WebSocket that connect_auth registered takes its
\* tuple, and nothing else, out of the connection list of its room and leaves
\* every game as it is; a connect_auth for a uid delivers the snapshot of the
\* room for that uid to the new WebSocket
C29_DisconnectRemoves ==
    [][/\ \A ws \in DOMAIN socks :
            Disconnects(ws)
            => /\ rooms' = rooms
               /\ ~Holds(connections'[socks[ws].room], Pair(ws, socks[ws].uid))
               /\ \A ws2 \in DOMAIN socks :
                    ws2 # ws /\ Holds(connections[socks[ws].room], Pair(ws2, socks[ws2].uid))
                    => Holds(connections'[socks[ws].room], Pair(ws2, socks[ws2].uid))
       /\ \A ws \in DOMAIN socks' \ DOMAIN socks :
            socks'[ws].room \in DOMAIN rooms
            => socks'[ws].seen = <<[for |-> socks'[ws].uid,
                                    payload |-> get_snapshot(rooms[socks'[ws].room],
                                                             socks'[ws].uid)]>>]_vars

\* the tuples of the connection list of room_id
Tuples(room_id) ==
    {ConnectionsOf(connections, room_id)[i] :
        i \in 1 .. Len(ConnectionsOf(connections, room_id))}

\* the broadcast b ends in this step; its last send fails or not
Ends(b) == b \in DOMAIN casts /\ b \notin DOMAIN casts'
LastSent(b) == socks[casts[b].to[1]].open /\ ~casts[b].thrown
Failed(b) ==
    {casts[b].dead[i] : i \in 1 .. Len(casts[b].dead)}
    \cup (IF LastSent(b) THEN {} ELSE {casts[b].to})
Reached(b) == casts[b].got \cup (IF LastSent(b) THEN {casts[b].to} ELSE {})

\* C30: when a broadcast ends, every tuple whose send failed is out of the
\* connection list of the room, and every other tuple of the list has been
\* sent the snapshot in this broadcast; a payload that is sent to a tuple is
\* the snapshot for the uid of that tuple
C30_BroadcastReachesAll ==
    [][\A b \in DOMAIN casts :
         /\ Ends(b)
            => /\ \A item \in Failed(b) :
                    ~Holds(ConnectionsOf(connections', casts[b].room), item)
               /\ \A item \in Tuples(casts[b].room) \ Failed(b) :
                    item \in Reached(b)
         /\ casts[b].payload.for = casts[b].to[2]]_vars

(***************************************************************************)
(* Claims on the messages of a room that is played over several            *)
(* WebSockets.                                                             *)
(***************************************************************************)
\* h is what one engine call for a message of some user makes of g, run to
\* its end: set_ready, with start_game when all are ready, or one of the
\* five actions
OneOperation(g, h) ==
    \E u \in Users :
        \/ \E k \in 1 .. NumShuffles :
              h = IF AllReady(set_ready(g, u))
                  THEN start_game(set_ready(g, u), k) ELSE set_ready(g, u)
        \/ h = action_take(g, u).g
        \/ h = action_pass(g, u).g
        \/ \E c \in AllCards :
              \/ h = action_attack(g, u, c).g
              \/ h = action_transfer(g, u, c).g
              \/ \E i \in 0 .. Len(g.table) - 1 : h = action_defend(g, u, i, c).g

\* no coroutine that is suspended in a send or in add_points moves in the step
NoneResumes ==
    /\ \A b \in DOMAIN casts : b \in DOMAIN casts' /\ casts'[b].i = casts[b].i
    /\ \A s \in DOMAIN wins : s \in DOMAIN wins' /\ wins'[s] = wins[s]
    /\ points' = points

\* h is g after the remove_player calls of one pass of the supervisor:
\* some players that are not ready have left a room in waiting
Removal(g, h) ==
    /\ g.state = "waiting"
    /\ \E S \in SUBSET {g.players[i].uid : i \in {j \in 1 .. NPlayers(g) :
                                                   ~g.players[j].is_ready}} :
          /\ S # {}
          /\ h = [g EXCEPT !.players = SelectSeq(@, LAMBDA p : p.uid \notin S)]

\* C31: a step that changes the game of a room applies one whole engine
\* operation of a message to it, or the removals of one pass of the
\* supervisor, after which a room without players is deleted; and it is not
\* a step of a coroutine that was suspended: a coroutine that comes back
\* from a send or from add_points writes nothing to the game
C31_Serialized ==
    [][\A room_id \in DOMAIN rooms :
          IF room_id \in DOMAIN rooms'
          THEN rooms'[room_id] # rooms[room_id]
               => /\ \/ OneOperation(rooms[room_id], rooms'[room_id])
                     \/ Removal(rooms[room_id], rooms'[room_id])
                  /\ NoneResumes
          ELSE /\ Removal(rooms[room_id], [rooms[room_id] EXCEPT !.players = <<>>])
               /\ NoneResumes]_vars

\* a game in play was changed by one route while the handle_message of the
\* other route is suspended in a send with the snapshot of the game before
\* the change, which shows another table
C31_Witness ==
    /\ 1 \in DOMAIN rooms
    /\ rooms[1].state = "playing"
    /\ \E b \in DOMAIN casts :
          /\ casts[b].owner.kind = "route"
          /\ casts[b].payload.payload.state = "playing"
          /\ casts[b].payload.payload.table # rooms[1].table

(***************************************************************************)
(* Claims on the refill, the payout and the end of a game.                 *)
(***************************************************************************)
\* the hand of seat i when _next_turn starts in the handling of action a: a
\* take has put the cards of the table into the defender's hand
BeforeRefill(g, a, i) ==
    IF a = "take" /\ i = g.defender_idx
    THEN P(g, i).hand (+) TableCards(g.table) ELSE P(g, i).hand

\* the place of seat i in the seat order that starts at the attacker
RefillRank(g, i) == (i - g.attacker_idx) % NPlayers(g)

\* seat j has drawn from the deck in the step from g to h
Drew(g, h, a, j) == BagCardinality(P(h, j).hand) > BagCardinality(BeforeRefill(g, a, j))

Credit(u) == points[u] - (StartBalance(u) - JOIN_COST)

\* C33: process_win credits a seated user at most once, whatever messages
\* are handled and however their process_win calls interleave; and when the
\* game is finished and no process_win is in flight, every player that is
\* out has been credited WIN_REWARD
C33_PaidOnce ==
    \A room_id \in DOMAIN rooms :
        \A i \in Seats(rooms[room_id]) :
            LET p == P(rooms[room_id], i)
            IN  /\ Credit(p.uid) \in {0, WIN_REWARD}
                /\ rooms[room_id].state = "finished" /\ wins = EmptyDict /\ p.is_out
                   => Credit(p.uid) = WIN_REWARD

(***************************************************************************)
(* Further claims on create_room and join_room.                            *)
(***************************************************************************)
\* C34: the step in which a create_room or join_room call debits its user
\* finds a balance of at least JOIN_COST, and no balance is below zero after
\* a step
C34_NoOverdraft ==
    [][/\ \A c \in BagToSet(calls) :
            c.pc = "add_points" /\ ActsOn(c) => points[c.uid] >= JOIN_COST
       /\ \A u \in DOMAIN points' : points'[u] >= 0]_vars

\* C35: the step in which a join_room call debits its user and returns True
\* leaves the user seated in the room of the call, which is registered
C35_PaidSeatExists ==
    [][\A c \in BagToSet(calls) :
          (c.op = "join" /\ c.pc = "add_points" /\ Returns(c, "True"))
          => /\ c.room \in DOMAIN rooms'
             /\ \E i \in 1 .. Len(GameOf(rooms', c.room).players) :
                   GameOf(rooms', c.room).players[i].uid = c.uid]_vars

(***************************************************************************)
(* Claims on started and finished games.                                   *)
(***************************************************************************)
\* the cards of the players of g, seat by seat
HandsOf(g) == [i \in 1 .. NPlayers(g) |-> g.players[i].hand]

\* C36: a ready message handled while the game is playing or finished
\* leaves the deck, the hands, the table, the trump, attacker_idx,
\* defender_idx and the state as they are
C36_DealtOnce ==
    \A u \in Users, k \in 1 .. NumShuffles :
        LET h == Dispatch(game, Msg("ready", u, NoCard, NoIdx), k).g
        IN  game.state \in {"playing", "finished"} =>
              /\ h.deck = game.deck
              /\ HandsOf(h) = HandsOf(game)
              /\ h.table = game.table
              /\ h.trump_suit = game.trump_suit
              /\ h.trump_card = game.trump_card
              /\ h.attacker_idx = game.attacker_idx
              /\ h.defender_idx = game.defender_idx
              /\ h.state = game.state

\* C37: in a finished game no attack, defend, take, pass or transfer
\* changes a hand, the table, the deck, attacker_idx, defender_idx or
\* winner_order
C37_FinishedFrozen ==
    game.state = "finished" =>
        \A m \in Messages(game) :
            LET h == Dispatch(game, m, 1).g
            IN  m.action # "ready" =>
                  /\ HandsOf(h) = HandsOf(game)
                  /\ h.table = game.table
                  /\ h.deck = game.deck
                  /\ h.attacker_idx = game.attacker_idx
                  /\ h.defender_idx = game.defender_idx
                  /\ h.winner_order = game.winner_order

\* C38: while the game is playing, the pairs of the table without a defend
\* card are at most as many as the cards the defender holds
C38_UnbeatenWithinHand ==
    game.state = "playing" =>
        Cardinality({i \in 1 .. Len(game.table) : game.table[i].defend = NoCard})
            <= BagCardinality(P(game, game.defender_idx).hand)

\* the uids of the players of g that are out
OutUids(g) == {g.players[i].uid : i \in {j \in 1 .. NPlayers(g) : g.players[j].is_out}}

\* C39: while the game is playing, every player that is out has an empty
\* hand, the attacker and the defender are not out, and winner_order holds
\* exactly the uids of the players that are out
C39_OutPlayers ==
    game.state = "playing" =>
        /\ \A i \in Seats(game) :
              P(game, i).is_out => BagCardinality(P(game, i).hand) = 0
        /\ ~P(game, game.attacker_idx).is_out
        /\ ~P(game, game.defender_idx).is_out
        /\ {game.winner_order[i] : i \in 1 .. Len(game.winner_order)} = OutUids(game)

\* C40: while the game is playing and cards are left in the deck, the
\* trump card is the bottom card of the deck, the one that is drawn last;
\* and whatever message is handled, with whatever shuffle, a game that is
\* still playing afterwards has the same trump card and trump suit and a
\* deck that is the bottom part of the deck before
C40_TrumpLast ==
    game.state = "playing" =>
        /\ game.deck.cards # <<>> /\ game.trump_card # NoCard
           => game.deck.cards[1] = game.trump_card
        /\ \A m \in Messages(game), k \in 1 .. RedealShuffles :
              LET h == Dispatch(game, m, k).g
              IN  h.state = "playing" =>
                    /\ h.trump_card = game.trump_card
                    /\ h.trump_suit = game.trump_suit
                    /\ Len(h.deck.cards) <= Len(game.deck.cards)
                    /\ h.deck.cards = SubSeq(game.deck.cards, 1, Len(h.deck.cards))

====
